---- MODULE Spec2Model ----
(***************************************************************************)
(* Payment Workflow Engine of classroom-payment-service                    *)
(* (src/payment_service/main.py) together with the two clients it calls:   *)
(* MailerClient (Notification Gateway) and LoggerClient (Log Sink).        *)
(*                                                                         *)
(* The three module-level dictionaries are the state.  Every HTTP handler  *)
(* is an operator that computes, from the current dictionaries, its        *)
(* request and the outcomes of the downstream calls, the dictionaries      *)
(* after the call, the response, the notification attempts and the log     *)
(* records it made; the action of the handler commits that result.         *)
(*                                                                         *)
(* The Log Sink (src/logger_service/main.py) is a process of its own: its  *)
(* state is the log files of its directory and the background tasks it     *)
(* has accepted and not yet run.                                           *)
(*                                                                         *)
(* The Notification Gateway (src/mailer_service/main.py) is a process of   *)
(* its own too: email_config is the EmailConfig it built when it started,  *)
(* smtp holds the sessions it opened with the mail transport while it      *)
(* served its last request.  client holds what the last call of a          *)
(* LoggerClient method did: the POSTs it made and what it returned.        *)
(* in_flight holds the requests the server has accepted and whose handler  *)
(* the event loop has not run yet.                                         *)
(***************************************************************************)
EXTENDS Integers, Sequences, FiniteSets, TLC

VARIABLES payment_services, payments, payment_applications, uuid_count,
          request, response, mails, logs,
          log_files, background_tasks, email_config, smtp, client, in_flight

vars == <<payment_services, payments, payment_applications, uuid_count,
          request, response, mails, logs, log_files, background_tasks,
          email_config, smtp, client, in_flight>>

(***************************************************************************)
(* Bounds and input domains                                                *)
(***************************************************************************)
\* number of uuid4() values drawn in a run
MaxUuid == 2
\* clock ticks to a day
TicksPerDay == 2

ServiceIds == {"s1"}
ServiceNames == {"Math", "Unknown Service"}
Descriptions == {"d1"}
Prices == {100}
Amounts == {100}
UserIds == {"u1"}
Emails == {"a@example.com"}
Reasons == {"r1"}
StatusInputs == {"pending", "paid", "failed", "refunded"}
\* every id str(uuid.uuid4()) can produce in a run
Uuids == {ToString(i) : i \in 1..MaxUuid}
\* what a downstream call meets: an HTTP status, or 0 for no answer
\* (connection error, timeout)
GatewayOutcomes == {200, 503}
LogSinkOutcomes == {200, 0}

None == "None"
EmptyDict == [f \in {} |-> None]

(***************************************************************************)
(* Python / library primitives                                             *)
(***************************************************************************)
\* dict with d[k] = v
DictSet(d, k, v) == [x \in (DOMAIN d) \cup {k} |-> IF x = k THEN v ELSE d[x]]

\* a delete that empties the dict (d.clear())
DictDel_clear(d, k) == [x \in {} |-> d[x]]

\* del d[k]
DictDel(d, k) == [x \in (DOMAIN d) \ {k} |-> d[x]]

\* str(uuid.uuid4()): a value never produced before
uuid4 == ToString(uuid_count + 1)

\* datetime.now(): the clock advances one tick between two draws of a uuid
datetime_now == uuid_count + 1

\* datetime + timedelta(days = n)
AddDays(t, n) == t + n * TicksPerDay

\* datetime.strftime("%Y-%m-%d"): the date of a time, the time of day dropped
strftime_date(t) == t \div TicksPerDay

\* datetime.isoformat(): date and time of day
isoformat(t) == <<t \div TicksPerDay, t % TicksPerDay>>

HTTPException(status_code, detail) ==
    [status_code |-> status_code, detail |-> detail, body |-> None]

Ok(body) == [status_code |-> 200, detail |-> "", body |-> body]

(***************************************************************************)
(* LoggerClient: one POST /log per call; the result is a boolean and no    *)
(* exception leaves the client.                                            *)
(***************************************************************************)
\* the log_data of _send_log: details is added when it is given and not empty
LogData(service_name, level, message, details) ==
    IF details # EmptyDict
    THEN [service |-> service_name, level |-> level, message |-> message,
          timestamp |-> "now", details |-> details]
    ELSE [service |-> service_name, level |-> level, message |-> message,
          timestamp |-> "now"]

\* a client that lets raise_for_status speak: every answer but 200 raises
LoggerClient_send_log_raising(service_name, level, message, details, answer) ==
    [posts |-> <<[url |-> "/log", json |-> LogData(service_name, level, message, details),
                  timeout |-> 2]>>,
     returned |-> answer = 200,
     raised |-> answer # 200]

\* LoggerClient._send_log: one requests.post; answer is the status of the
\* response, or 0 when the POST raises (connection error, timeout); the
\* except Exception clause returns False, so nothing is raised to the caller
LoggerClient_send_log(service_name, level, message, details, answer) ==
    [posts |-> <<[url |-> "/log", json |-> LogData(service_name, level, message, details),
                  timeout |-> 2]>>,
     returned |-> IF answer = 0 THEN FALSE ELSE answer = 200,
     raised |-> FALSE]

\* _send_log of the engine's client, LoggerClient("payment-service")
send_log(level, message, ls) ==
    LET r == LoggerClient_send_log("payment-service", level, message, EmptyDict, ls)
    IN  [record |-> [service |-> r.posts[1].json.service, level |-> r.posts[1].json.level,
                     message |-> r.posts[1].json.message],
         result |-> r.returned,
         raised |-> r.raised]

\* one logger call of a handler: the handlers drop the boolean the client
\* returns; an exception would abort the handler
LogCall(level, message, ls) ==
    LET r == send_log(level, message, ls)
    IN  [level |-> r.record.level, message |-> r.record.message, raised |-> r.raised]

info(message, ls) == LogCall("INFO", message, ls)
error(message, ls) == LogCall("ERROR", message, ls)
warning(message, ls) == LogCall("WARNING", message, ls)
debug(message, ls) == LogCall("DEBUG", message, ls)

(***************************************************************************)
(* MailerClient.send_template_email: one POST /send-template;              *)
(* raise_for_status and every RequestException become an Exception.        *)
(***************************************************************************)
send_template_email(to_email, template_id, template_data, gw) ==
    [payload |-> [to |-> <<to_email>>, template_id |-> template_id,
                  template_data |-> template_data,
                  source_service |-> "payment-service"],
     raised |-> (gw = 0 \/ gw >= 400)]

\* a helper without its try / except: the exception of the client leaves it
SendHelper_uncaught(email, template_id, template_data, sent_msg, failed_msg, gw, ls) ==
    LET r == send_template_email(email, template_id, template_data, gw)
    IN  [success |-> ~r.raised,
         mail |-> [template_id |-> r.payload.template_id, to |-> r.payload.to,
                   template_data |-> r.payload.template_data,
                   delivered |-> ~r.raised, escaped |-> r.raised],
         logs |-> IF r.raised THEN <<>> ELSE <<info(sent_msg, ls)>>]

\* body shared by the seven send_*_email helpers: try the call, log INFO and
\* return True, or catch the exception, log ERROR and return False; escaped
\* says whether the exception leaves the helper
SendHelper(email, template_id, template_data, sent_msg, failed_msg, gw, ls) ==
    LET r == send_template_email(email, template_id, template_data, gw)
    IN  [success |-> ~r.raised,
         mail |-> [template_id |-> r.payload.template_id, to |-> r.payload.to,
                   template_data |-> r.payload.template_data,
                   delivered |-> ~r.raised, escaped |-> FALSE],
         logs |-> IF r.raised THEN <<error(failed_msg, ls)>>
                              ELSE <<info(sent_msg, ls)>>]

send_payment_created_email(payment_id, email, service_name, amount, due_date, gw, ls) ==
    SendHelper(email, "payment_created",
               [payment_id |-> payment_id, service_name |-> service_name,
                amount |-> amount, due_date |-> due_date],
               "Payment created email sent", "Failed to send payment created email",
               gw, ls)

\* a success notification that never passes the transaction id on
send_payment_success_email_no_id(payment_id, email, service_name, amount, transaction_id, gw, ls) ==
    SendHelper(email, "payment_success",
               [payment_id |-> payment_id, service_name |-> service_name,
                amount |-> amount],
               "Payment success email sent", "Failed to send payment success email",
               gw, ls)

send_payment_success_email(payment_id, email, service_name, amount, transaction_id, gw, ls) ==
    LET base == [payment_id |-> payment_id, service_name |-> service_name,
                 amount |-> amount]
        \* if transaction_id: None and "" leave the key out
        template_data == IF transaction_id \in {None, ""} THEN base
                         ELSE [payment_id |-> payment_id, service_name |-> service_name,
                               amount |-> amount, transaction_id |-> transaction_id]
    IN  SendHelper(email, "payment_success", template_data,
                   "Payment success email sent", "Failed to send payment success email",
                   gw, ls)

\* a failure notification sent under the template of the success one
send_payment_failed_email_as_success(payment_id, email, service_name, amount, reason, gw, ls) ==
    SendHelper(email, "payment_success",
               [payment_id |-> payment_id, service_name |-> service_name,
                amount |-> amount, reason |-> reason],
               "Payment failed email sent", "Failed to send payment failed email",
               gw, ls)

send_payment_failed_email(payment_id, email, service_name, amount, reason, gw, ls) ==
    SendHelper(email, "payment_failed",
               [payment_id |-> payment_id, service_name |-> service_name,
                amount |-> amount, reason |-> reason],
               "Payment failed email sent", "Failed to send payment failed email",
               gw, ls)

send_application_created_email(application_id, email, service_name, amount, gw, ls) ==
    SendHelper(email, "application_created",
               [application_id |-> application_id, service_name |-> service_name,
                amount |-> amount],
               "Application created email sent",
               "Failed to send application created email", gw, ls)

send_application_approved_email(application_id, email, service_name, amount, payment_id, gw, ls) ==
    SendHelper(email, "application_approved",
               [application_id |-> application_id, service_name |-> service_name,
                amount |-> amount, payment_id |-> payment_id],
               "Application approved email sent",
               "Failed to send application approved email", gw, ls)

send_application_rejected_email(application_id, email, service_name, amount, reason, gw, ls) ==
    SendHelper(email, "application_rejected",
               [application_id |-> application_id, service_name |-> service_name,
                amount |-> amount, reason |-> reason],
               "Application rejected email sent",
               "Failed to send application rejected email", gw, ls)

send_application_deleted_email(application_id, email, service_name, amount, gw, ls) ==
    SendHelper(email, "application_deleted",
               [application_id |-> application_id, service_name |-> service_name,
                amount |-> amount],
               "Application deleted email sent",
               "Failed to send application deleted email", gw, ls)

(***************************************************************************)
(* Result of a handler                                                     *)
(***************************************************************************)
\* an exception that leaves a helper or the logger client is handled nowhere
\* in a handler: the framework answers 500 in place of the handler's value
Result(svcs, pays, apps, uu, resp, ms, ls) ==
    [payment_services |-> svcs, payments |-> pays, payment_applications |-> apps,
     uuid_count |-> uu,
     response |-> IF (\E i \in DOMAIN ms : ms[i].escaped)
                      \/ (\E i \in DOMAIN ls : ls[i].raised)
                  THEN HTTPException(500, "Internal Server Error")
                  ELSE resp,
     mails |-> ms, logs |-> ls]

\* a handler that leaves the dictionaries alone
ReadOnly(resp, ls) ==
    Result(payment_services, payments, payment_applications, uuid_count, resp, <<>>, ls)

\* service name resolution used by the payment and application handlers
ResolveServiceName(service_id) ==
    IF service_id \in DOMAIN payment_services
    THEN payment_services[service_id].name
    ELSE "Unknown Service"

(***************************************************************************)
(* Service handlers                                                        *)
(***************************************************************************)
get_payment_service(service_id, ls) ==
    IF service_id \notin DOMAIN payment_services
    THEN ReadOnly(HTTPException(404, "Payment service not found"),
                  <<info("Getting payment service details", ls),
                    warning("Payment service not found", ls)>>)
    ELSE ReadOnly(Ok(payment_services[service_id]),
                  <<info("Getting payment service details", ls),
                    debug("Payment service found", ls)>>)

\* a registration that overwrites an existing definition
add_payment_service_overwrite(service, ls) ==
    Result(DictSet(payment_services, service.service_id, service),
           payments, payment_applications, uuid_count, Ok(service), <<>>,
           <<info("Adding new payment service", ls),
             info("Payment service added successfully", ls)>>)

add_payment_service(service, ls) ==
    IF service.service_id \in DOMAIN payment_services
    THEN ReadOnly(HTTPException(400, "Service ID already exists"),
                  <<info("Adding new payment service", ls),
                    warning("Service ID already exists", ls)>>)
    ELSE Result(DictSet(payment_services, service.service_id, service),
                payments, payment_applications, uuid_count, Ok(service), <<>>,
                <<info("Adding new payment service", ls),
                  info("Payment service added successfully", ls)>>)

\* an update that stops after the first field of update_data
ApplyUpdate_first_field(current_service, update_data) ==
    [f \in DOMAIN current_service |->
        IF f \in DOMAIN update_data /\ f = "name"
        THEN update_data[f] ELSE current_service[f]]

\* setattr(current_service, field, value) for every field of update_data
ApplyUpdate(current_service, update_data) ==
    [f \in DOMAIN current_service |->
        IF f \in DOMAIN update_data THEN update_data[f] ELSE current_service[f]]

update_payment_service(service_id, service_update, ls) ==
    IF service_id \notin DOMAIN payment_services
    THEN ReadOnly(HTTPException(404, "Payment service not found"),
                  <<info("Updating payment service", ls),
                    warning("Payment service not found", ls)>>)
    ELSE LET current_service == ApplyUpdate(payment_services[service_id], service_update)
         IN  Result(DictSet(payment_services, service_id, current_service),
                    payments, payment_applications, uuid_count,
                    Ok(current_service), <<>>,
                    <<info("Updating payment service", ls),
                      info("Payment service updated successfully", ls)>>)

\* a delete that cascades to the payments and applications of the service
delete_payment_service_cascade(service_id, ls) ==
    IF service_id \notin DOMAIN payment_services
    THEN ReadOnly(HTTPException(404, "Payment service not found"),
                  <<info("Deleting payment service", ls)>>)
    ELSE Result(DictDel(payment_services, service_id),
                [k \in {p \in DOMAIN payments : payments[p].service_id # service_id}
                    |-> payments[k]],
                [k \in {a \in DOMAIN payment_applications :
                            payment_applications[a].service_id # service_id}
                    |-> payment_applications[k]],
                uuid_count,
                Ok([message |-> "Payment service deleted successfully"]), <<>>,
                <<info("Deleting payment service", ls),
                  info("Payment service deleted successfully", ls)>>)

delete_payment_service(service_id, ls) ==
    IF service_id \notin DOMAIN payment_services
    THEN ReadOnly(HTTPException(404, "Payment service not found"),
                  <<info("Deleting payment service", ls)>>)
    ELSE Result(DictDel(payment_services, service_id),
                payments, payment_applications, uuid_count,
                Ok([message |-> "Payment service deleted successfully"]), <<>>,
                <<info("Deleting payment service", ls),
                  info("Payment service deleted successfully", ls)>>)

(***************************************************************************)
(* Payment handlers                                                        *)
(***************************************************************************)
\* the helper is called while the maps hold pays and apps: the notification
\* attempt is recorded with the maps of that moment
AtDispatch(sent, pays, apps) ==
    [success |-> sent.success,
     mail |-> [template_id |-> sent.mail.template_id, to |-> sent.mail.to,
               template_data |-> sent.mail.template_data,
               delivered |-> sent.mail.delivered, escaped |-> sent.mail.escaped,
               at_dispatch |-> [payments |-> pays, payment_applications |-> apps]],
     logs |-> sent.logs]

\* if not success: logger.warning(message)
WarnIfFailed(sent, message, ls) ==
    IF sent.success THEN <<>> ELSE <<warning(message, ls)>>

\* except Exception of create_payment: whatever was raised inside the try
\* block, the HTTPException of the service check included, is logged as an
\* error and replaced by a 500
create_payment_except(raised) ==
    HTTPException(500, "Failed to create payment")

\* new_payment = Payment(...) of create_payment
NewPayment(payment_id, payment, now) ==
    [payment_id |-> payment_id, service_id |-> payment.service_id,
     amount |-> payment.amount, user_id |-> payment.user_id,
     status |-> "pending", created_at |-> now, email |-> payment.email]

create_payment(payment, now, gw, ls) ==
    LET payment_id == uuid4
        new_payment == NewPayment(payment_id, payment, now)
        stored == DictSet(payments, payment_id, new_payment)
        service_name == ResolveServiceName(new_payment.service_id)
        due_date_str == strftime_date(AddDays(new_payment.created_at, 30))
        sent == AtDispatch(send_payment_created_email(payment_id, new_payment.email, service_name,
                                           new_payment.amount, due_date_str, gw, ls),
                                        stored, payment_applications)
    IN  IF service_name = "Unknown Service"
        THEN Result(payment_services, stored, payment_applications, uuid_count + 1,
                    create_payment_except(HTTPException(404, "Service not found")),
                    <<>>,
                    <<info("Creating new payment", ls),
                      warning("Service not found for payment", ls),
                      error("Failed to create payment", ls)>>)
        ELSE Result(payment_services, stored, payment_applications, uuid_count + 1,
                    Ok([payment_id |-> payment_id, status |-> "pending",
                        amount |-> new_payment.amount,
                        created_at |-> isoformat(new_payment.created_at)]),
                    <<sent.mail>>,
                    <<info("Creating new payment", ls)>> \o sent.logs
                      \o WarnIfFailed(sent, "Failed to send email notification", ls)
                      \o <<info("Payment created", ls)>>)

\* the status snapshot returned by get_payment_info, process_payment, fail_payment
PaymentStatus(payment) ==
    [payment_id |-> payment.payment_id, status |-> payment.status,
     amount |-> payment.amount, created_at |-> isoformat(payment.created_at)]

\* a status assignment under a transition table: only a pending entity moves
SetStatus_from_pending(d, id, value) ==
    [d EXCEPT ![id].status = IF @ = "pending" THEN value ELSE @]

\* a status assignment that re-opens an entity asked to take the status it has
SetStatus_reopen(d, id, value) ==
    [d EXCEPT ![id].status = IF @ = value THEN "pending" ELSE value]

\* a status update that stores a rebuilt entry without the e-mail address
SetStatus_without_email(d, id, value) ==
    [d EXCEPT ![id].status = value, ![id].email = ""]

\* payment.status = value on the stored object
SetStatus(d, id, value) == [d EXCEPT ![id].status = value]

get_payment_info(payment_id, ls) ==
    IF payment_id \notin DOMAIN payments
    THEN ReadOnly(HTTPException(404, "Payment not found"),
                  <<info("Getting payment info", ls), warning("Payment not found", ls)>>)
    ELSE ReadOnly(Ok(PaymentStatus(payments[payment_id])),
                  <<info("Getting payment info", ls)>>)

\* gws: the gateway's answers to the successive notification calls
update_payment(payment_id, payment_update, gws, ls) ==
    IF payment_id \notin DOMAIN payments
    THEN ReadOnly(HTTPException(404, "Payment not found"),
                  <<info("Updating payment status", ls), warning("Payment not found", ls)>>)
    ELSE LET stored == SetStatus(payments, payment_id, payment_update.status)
             payment == stored[payment_id]
             service_name == ResolveServiceName(payment.service_id)
             \* lines 357-362 stand outside the if of line 354
             sent1 == AtDispatch(send_payment_success_email(payment_id, payment.email, service_name,
                                                 payment.amount, None, gws[1], ls),
                                        stored, payment_applications)
             \* lines 370-376 stand outside the elif of line 367
             sent2 == AtDispatch(send_payment_failed_email(payment_id, payment.email, service_name,
                                                payment.amount, "Payment processing failed",
                                                gws[2], ls),
                                        stored, payment_applications)
         IN  Result(payment_services, stored, payment_applications, uuid_count,
                    Ok(payment), <<sent1.mail, sent2.mail>>,
                    <<info("Updating payment status", ls)>>
                      \o (IF payment.status = "paid"
                          THEN <<info("Payment marked as paid", ls)>> ELSE <<>>)
                      \o sent1.logs
                      \o (IF ~sent1.success
                          THEN <<warning("Failed to send payment success email", ls)>>
                          ELSE IF payment.status = "failed"
                               THEN <<info("Payment marked as failed", ls)>> ELSE <<>>)
                      \o sent2.logs
                      \o WarnIfFailed(sent2, "Failed to send payment failure email", ls))

process_payment(payment_id, req_transaction_id, gw, ls) ==
    IF payment_id \notin DOMAIN payments
    THEN ReadOnly(HTTPException(404, "Payment not found"),
                  <<warning("Payment not found", ls)>>)
    ELSE LET stored == SetStatus(payments, payment_id, "paid")
             payment == stored[payment_id]
             service_name == ResolveServiceName(payment.service_id)
             supplied == req_transaction_id \notin {None, ""}
             transaction_id == IF supplied THEN req_transaction_id ELSE uuid4
             sent == AtDispatch(send_payment_success_email(payment_id, payment.email, service_name,
                                                payment.amount, transaction_id, gw, ls),
                                        stored, payment_applications)
         IN  Result(payment_services, stored, payment_applications,
                    IF supplied THEN uuid_count ELSE uuid_count + 1,
                    Ok(PaymentStatus(payment)), <<sent.mail>>,
                    sent.logs
                      \o WarnIfFailed(sent, "Failed to send payment success email", ls))

fail_payment(payment_id, gw, ls) ==
    IF payment_id \notin DOMAIN payments
    THEN ReadOnly(HTTPException(404, "Payment not found"),
                  <<warning("Payment not found", ls)>>)
    ELSE LET stored == SetStatus(payments, payment_id, "failed")
             payment == stored[payment_id]
             service_name == ResolveServiceName(payment.service_id)
             sent == AtDispatch(send_payment_failed_email(payment_id, payment.email, service_name,
                                               payment.amount, "Payment processing failed",
                                               gw, ls),
                                        stored, payment_applications)
         IN  Result(payment_services, stored, payment_applications, uuid_count,
                    Ok(PaymentStatus(payment)), <<sent.mail>>,
                    sent.logs
                      \o WarnIfFailed(sent, "Failed to send payment failure email", ls))

\* a delete without the existence check (dict.pop(key, None))
delete_payment_unchecked(payment_id, ls) ==
    Result(payment_services, DictDel(payments, payment_id), payment_applications,
           uuid_count, Ok([message |-> "Payment deleted successfully"]), <<>>,
           <<info("Deleting payment", ls), info("Payment deleted successfully", ls)>>)

delete_payment(payment_id, ls) ==
    IF payment_id \notin DOMAIN payments
    THEN ReadOnly(HTTPException(404, "Payment not found"),
                  <<info("Deleting payment", ls), warning("Payment not found", ls)>>)
    ELSE Result(payment_services, DictDel(payments, payment_id), payment_applications,
                uuid_count, Ok([message |-> "Payment deleted successfully"]), <<>>,
                <<info("Deleting payment", ls), info("Payment deleted successfully", ls)>>)

(***************************************************************************)
(* Application handlers                                                    *)
(***************************************************************************)
\* an apply that stores the application without looking the service up
apply_payment_unchecked(application, now, gw, ls) ==
    LET application_id == uuid4
        entry == [application_id |-> application_id, user_id |-> application.user_id,
                  service_id |-> application.service_id, amount |-> application.amount,
                  reason |-> application.reason, status |-> "pending",
                  created_at |-> now, email |-> application.email]
        sent == AtDispatch(send_application_created_email(application_id, application.email,
                                               ResolveServiceName(application.service_id),
                                               application.amount, gw, ls),
                                        payments, DictSet(payment_applications, application_id, entry))
    IN  Result(payment_services, payments,
               DictSet(payment_applications, application_id, entry), uuid_count + 1,
               Ok([application_id |-> application_id, status |-> "pending",
                   created_at |-> isoformat(entry.created_at)]),
               <<sent.mail>>,
               <<info("Received payment application", ls)>> \o sent.logs)

apply_payment(application, now, gw, ls) ==
    LET application_id == uuid4
        entry == [application_id |-> application_id, user_id |-> application.user_id,
                  service_id |-> application.service_id, amount |-> application.amount,
                  reason |-> application.reason, status |-> "pending",
                  created_at |-> now, email |-> application.email]
    IN  IF application.service_id \notin DOMAIN payment_services
        THEN Result(payment_services, payments, payment_applications, uuid_count + 1,
                    HTTPException(404, "Payment service not found"), <<>>,
                    <<info("Received payment application", ls),
                      debug("Available services", ls),
                      warning("Payment service not found", ls)>>)
        ELSE LET service_name == payment_services[application.service_id].name
                 sent == AtDispatch(send_application_created_email(application_id, application.email,
                                                        service_name, application.amount,
                                                        gw, ls),
                                        payments, DictSet(payment_applications, application_id, entry))
             IN  Result(payment_services, payments,
                        DictSet(payment_applications, application_id, entry),
                        uuid_count + 1,
                        Ok([application_id |-> application_id, status |-> "pending",
                            created_at |-> isoformat(entry.created_at)]),
                        <<sent.mail>>,
                        <<info("Received payment application", ls),
                          debug("Available services", ls)>>
                          \o sent.logs
                          \o WarnIfFailed(sent, "Failed to send email notification", ls)
                          \o <<info("Payment application created", ls)>>)

get_application_info(application_id, ls) ==
    IF application_id \notin DOMAIN payment_applications
    THEN ReadOnly(HTTPException(404, "Application not found"),
                  <<info("Getting application info", ls),
                    warning("Application not found", ls)>>)
    ELSE LET application == payment_applications[application_id]
         IN  ReadOnly(Ok([application_id |-> application_id,
                          status |-> application.status,
                          created_at |-> isoformat(application.created_at)]),
                      <<info("Getting application info", ls)>>)

\* an approve that refuses an application once it is rejected
approve_application_unless_rejected(application_id) ==
    \/ application_id \notin DOMAIN payment_applications
    \/ payment_applications[application_id].status = "rejected"

\* an approve that refuses an application that is approved already
approve_application_unless_approved(application_id) ==
    \/ application_id \notin DOMAIN payment_applications
    \/ payment_applications[application_id].status = "approved"

\* the existence check of approve_application: the status is not looked at
approve_application_not_found(application_id) ==
    application_id \notin DOMAIN payment_applications

\* a linked payment that starts in the status of its application
PaymentFromApplication_status(payment_id, application, now) ==
    [payment_id |-> payment_id, service_id |-> application.service_id,
     amount |-> application.amount, user_id |-> application.user_id,
     status |-> application.status, created_at |-> now, email |-> application.email]

\* new_payment = Payment(...) of approve_application
PaymentFromApplication(payment_id, application, now) ==
    [payment_id |-> payment_id, service_id |-> application.service_id,
     amount |-> application.amount, user_id |-> application.user_id,
     status |-> "pending", created_at |-> now, email |-> application.email]

approve_application(application_id, now, gws, ls) ==
    IF approve_application_not_found(application_id)
    THEN ReadOnly(HTTPException(404, "Application not found"),
                  <<info("Approving payment application", ls),
                    warning("Application not found", ls)>>)
    ELSE LET apps == SetStatus(payment_applications, application_id, "approved")
             application == apps[application_id]
             payment_id == uuid4
             new_payment == PaymentFromApplication(payment_id, application, now)
             service_name == ResolveServiceName(new_payment.service_id)
             sent1 == AtDispatch(send_application_approved_email(application_id, application.email,
                                                      service_name, application.amount,
                                                      payment_id, gws[1], ls),
                                        DictSet(payments, payment_id, new_payment), apps)
             due_date_str == strftime_date(AddDays(new_payment.created_at, 30))
             \* the result of the second helper is dropped (lines 569-575)
             sent2 == AtDispatch(send_payment_created_email(payment_id, application.email,
                                                 service_name, application.amount,
                                                 due_date_str, gws[2], ls),
                                        DictSet(payments, payment_id, new_payment), apps)
         IN  Result(payment_services, DictSet(payments, payment_id, new_payment), apps,
                    uuid_count + 1,
                    Ok([message |-> "Application approved and payment created",
                        payment_id |-> payment_id, status |-> "pending"]),
                    <<sent1.mail, sent2.mail>>,
                    <<info("Approving payment application", ls)>>
                      \o sent1.logs
                      \o WarnIfFailed(sent1, "Failed to send application approved email", ls)
                      \o sent2.logs
                      \o <<info("Application approved and payment created", ls)>>)

reject_application(application_id, reason, gw, ls) ==
    IF application_id \notin DOMAIN payment_applications
    THEN ReadOnly(HTTPException(404, "Application not found"),
                  <<info("Rejecting payment application", ls),
                    warning("Application not found", ls)>>)
    ELSE LET apps == SetStatus(payment_applications, application_id, "rejected")
             application == apps[application_id]
             service_name == ResolveServiceName(application.service_id)
             sent == AtDispatch(send_application_rejected_email(application_id, application.email,
                                                     service_name, application.amount,
                                                     reason, gw, ls),
                                        payments, apps)
         IN  Result(payment_services, payments, apps, uuid_count,
                    Ok([message |-> "Application rejected"]), <<sent.mail>>,
                    <<info("Rejecting payment application", ls)>>
                      \o sent.logs
                      \o WarnIfFailed(sent, "Failed to send application rejected email", ls)
                      \o <<info("Application rejected", ls)>>)

\* a delete that removes the entry first and notifies afterwards
delete_application_remove_first(application_id, gw, ls) ==
    IF application_id \notin DOMAIN payment_applications
    THEN ReadOnly(HTTPException(404, "Application not found"),
                  <<info("Deleting payment application", ls),
                    warning("Application not found", ls)>>)
    ELSE LET application == payment_applications[application_id]
             service_name == ResolveServiceName(application.service_id)
             removed == DictDel(payment_applications, application_id)
             sent == AtDispatch(
                         send_application_deleted_email(application_id, application.email,
                                                        service_name, application.amount,
                                                        gw, ls),
                         payments, removed)
         IN  Result(payment_services, payments, removed, uuid_count,
                    Ok([message |-> "Payment application successfully deleted"]),
                    <<sent.mail>>,
                    <<info("Deleting payment application", ls)>>
                      \o sent.logs
                      \o WarnIfFailed(sent, "Failed to send application deleted email", ls)
                      \o <<info("Payment application successfully deleted", ls)>>)

\* lines 634-639 run with the entry still in the map; line 645 removes it
delete_application(application_id, gw, ls) ==
    IF application_id \notin DOMAIN payment_applications
    THEN ReadOnly(HTTPException(404, "Application not found"),
                  <<info("Deleting payment application", ls),
                    warning("Application not found", ls)>>)
    ELSE LET application == payment_applications[application_id]
             service_name == ResolveServiceName(application.service_id)
             sent == AtDispatch(
                         send_application_deleted_email(application_id, application.email,
                                                        service_name, application.amount,
                                                        gw, ls),
                         payments, payment_applications)
         IN  Result(payment_services, payments,
                    DictDel(payment_applications, application_id), uuid_count,
                    Ok([message |-> "Payment application successfully deleted"]),
                    <<sent.mail>>,
                    <<info("Deleting payment application", ls)>>
                      \o sent.logs
                      \o WarnIfFailed(sent, "Failed to send application deleted email", ls)
                      \o <<info("Payment application successfully deleted", ls)>>)

(***************************************************************************)
(* CSV export handlers.  The response is the file the FileResponse serves: *)
(* its path, its download name and the rows csv.writer wrote; writable     *)
(* says whether open(file_path, 'w') succeeds during the call.             *)
(***************************************************************************)
\* list(d.keys()): a dict iterates in insertion order, and the keys of the
\* payments map are inserted in the order uuid4() produced them
RECURSIVE KeysUpTo(_, _)
KeysUpTo(d, n) ==
    IF n = 0 THEN <<>>
    ELSE KeysUpTo(d, n - 1) \o (IF ToString(n) \in DOMAIN d THEN <<ToString(n)>> ELSE <<>>)

keys(d) == KeysUpTo(d, uuid_count)

FileResponse(path, filename, rows) ==
    Ok([path |-> path, filename |-> filename, media_type |-> "text/csv", rows |-> rows])

\* a data row that reports the status the payment was created with
DownloadRow_created_status(payment) ==
    <<payment.payment_id, payment.service_id, ResolveServiceName(payment.service_id),
      payment.amount, payment.user_id, "pending", isoformat(payment.created_at)>>

\* the data row of download_payment
DownloadRow(payment) ==
    <<payment.payment_id, payment.service_id, ResolveServiceName(payment.service_id),
      payment.amount, payment.user_id, payment.status, isoformat(payment.created_at)>>

\* the data row of export_payments
ExportRow(payment) ==
    <<payment.payment_id, payment.service_id, ResolveServiceName(payment.service_id),
      payment.amount, payment.user_id, payment.status, isoformat(payment.created_at),
      payment.email>>

download_payment(payment_id, now, writable, ls) ==
    IF payment_id \notin DOMAIN payments
    THEN ReadOnly(HTTPException(404, "Payment not found"),
                  <<info("Downloading payment information", ls),
                    warning("Payment not found", ls)>>)
    ELSE LET payment == payments[payment_id]
             filename == <<"payment_", payment_id, ".csv">>
             file_path == <<"csv_exports", strftime_date(now), filename>>
             rows == <<(<<"Payment ID", "Service ID", "Service Name", "Amount",
                          "User ID", "Status", "Created At">>),
                       DownloadRow(payment)>>
         IN  IF writable
             THEN ReadOnly(FileResponse(file_path, filename, rows),
                           <<info("Downloading payment information", ls),
                             debug("Creating CSV file", ls),
                             info("CSV file created successfully", ls)>>)
             ELSE ReadOnly(HTTPException(500, "Failed to generate payment CSV"),
                           <<info("Downloading payment information", ls),
                             debug("Creating CSV file", ls),
                             error("Failed to create CSV file", ls)>>)

export_payments(now, writable, ls) ==
    LET timestamp == isoformat(now)
        filename == <<"all_payments_", timestamp, ".csv">>
        file_path == <<"csv_exports", filename>>
        order == keys(payments)
        rows == <<(<<"Payment ID", "Service ID", "Service Name", "Amount",
                     "User ID", "Status", "Created At", "Email">>)>>
                  \o [i \in 1..Len(order) |-> ExportRow(payments[order[i]])]
    IN  IF writable
        THEN ReadOnly(FileResponse(file_path, filename, rows),
                      <<info("Exporting all payments to CSV", ls),
                        info("All payments exported successfully", ls)>>)
        ELSE ReadOnly(HTTPException(500, "Failed to export payments"),
                      <<info("Exporting all payments to CSV", ls),
                        error("Failed to export payments", ls)>>)

(***************************************************************************)
(* Requests                                                                *)
(***************************************************************************)
ServiceInputs ==
    [service_id : ServiceIds, name : ServiceNames,
     description : Descriptions, base_price : Prices]

\* PaymentServiceUpdate.model_dump(exclude_unset = True): the fields the
\* caller sent
ServiceUpdateInputs ==
    {EmptyDict} \cup [name : ServiceNames] \cup [description : Descriptions]
      \cup [base_price : Prices]
      \cup [name : ServiceNames, description : Descriptions]
      \cup [name : ServiceNames, base_price : Prices]
      \cup [description : Descriptions, base_price : Prices]
      \cup [name : ServiceNames, description : Descriptions, base_price : Prices]

PaymentCreateInputs ==
    [service_id : ServiceIds, amount : Amounts, user_id : UserIds, email : Emails]

PaymentUpdateInputs == [status : StatusInputs]

\* PaymentProcessRequest.transaction_id; a missing body reads as None
TransactionIdInputs == {None, "", "tx-1"}

PaymentApplicationInputs ==
    [user_id : UserIds, service_id : ServiceIds, amount : Amounts,
     reason : Reasons, email : Emails]

\* the gateway's answers to two successive notification calls
GatewayPairs == [1..2 -> GatewayOutcomes]

\* the answers the gateway gives during one call of a handler: it is asked
\* only by a handler that found its entity
AnswersIf(found, answers) == IF found THEN answers ELSE {CHOOSE a \in answers : TRUE}

(***************************************************************************)
(* The state machine                                                       *)
(***************************************************************************)
Init ==
    /\ payment_services = EmptyDict
    /\ payments = EmptyDict
    /\ payment_applications = EmptyDict
    /\ uuid_count = 0
    /\ request = [op |-> "start"]
    /\ response = Ok(EmptyDict)
    /\ mails = <<>>
    /\ logs = <<>>
    /\ log_files = EmptyDict
    /\ background_tasks = <<>>
    \* EmailConfig() under the defaults of lines 34-38
    /\ email_config = [smtp_server |-> "sandbox.smtp.mailtrap.io", smtp_port |-> 2525,
                       default_sender |-> "payment@example.com"]
    /\ smtp = <<>>
    /\ client = [posts |-> <<>>, returned |-> FALSE, raised |-> FALSE]
    /\ in_flight = <<>>

\* the handler runs once, to completion: result is what it computed
Handle(req, result) ==
    \E r \in {result} :
        /\ payment_services' = r.payment_services
        /\ payments' = r.payments
        /\ payment_applications' = r.payment_applications
        /\ uuid_count' = r.uuid_count
        /\ request' = req
        /\ response' = r.response
        /\ mails' = r.mails
        /\ logs' = r.logs
        /\ UNCHANGED <<log_files, background_tasks, email_config, smtp, client>>

\* a request whose handler runs as soon as it arrives
Commit(req, result) == Handle(req, result) /\ UNCHANGED in_flight

GetPaymentService ==
    \E service_id \in ServiceIds, ls \in LogSinkOutcomes :
        Commit([op |-> "get_payment_service", service_id |-> service_id],
               get_payment_service(service_id, ls))

AddPaymentService ==
    \E service \in ServiceInputs, ls \in LogSinkOutcomes :
        Commit([op |-> "add_payment_service", service |-> service],
               add_payment_service(service, ls))

UpdatePaymentService ==
    \E service_id \in ServiceIds, service_update \in ServiceUpdateInputs,
       ls \in LogSinkOutcomes :
        Commit([op |-> "update_payment_service", service_id |-> service_id,
                service_update |-> service_update],
               update_payment_service(service_id, service_update, ls))

DeletePaymentService ==
    \E service_id \in ServiceIds, ls \in LogSinkOutcomes :
        Commit([op |-> "delete_payment_service", service_id |-> service_id],
               delete_payment_service(service_id, ls))

CreatePayment ==
    /\ uuid_count < MaxUuid
    /\ \E payment \in PaymentCreateInputs,
          gw \in GatewayOutcomes, ls \in LogSinkOutcomes :
        Commit([op |-> "create_payment", payment |-> payment],
               create_payment(payment, datetime_now, gw, ls))

GetPaymentInfo ==
    \E payment_id \in Uuids, ls \in LogSinkOutcomes :
        Commit([op |-> "get_payment_info", payment_id |-> payment_id],
               get_payment_info(payment_id, ls))

UpdatePayment ==
    \E payment_id \in Uuids, payment_update \in PaymentUpdateInputs,
       ls \in LogSinkOutcomes :
      \E gws \in AnswersIf(payment_id \in DOMAIN payments, GatewayPairs) :
        Commit([op |-> "update_payment", payment_id |-> payment_id,
                payment_update |-> payment_update],
               update_payment(payment_id, payment_update, gws, ls))

ProcessPayment ==
    \E payment_id \in Uuids, transaction_id \in TransactionIdInputs,
       ls \in LogSinkOutcomes :
      \E gw \in AnswersIf(payment_id \in DOMAIN payments, GatewayOutcomes) :
        /\ (payment_id \in DOMAIN payments /\ transaction_id \in {None, ""})
              => uuid_count < MaxUuid
        /\ Commit([op |-> "process_payment", payment_id |-> payment_id,
                   transaction_id |-> transaction_id],
                  process_payment(payment_id, transaction_id, gw, ls))

FailPayment ==
    \E payment_id \in Uuids, ls \in LogSinkOutcomes :
      \E gw \in AnswersIf(payment_id \in DOMAIN payments, GatewayOutcomes) :
        Commit([op |-> "fail_payment", payment_id |-> payment_id],
               fail_payment(payment_id, gw, ls))

DeletePayment ==
    \E payment_id \in Uuids, ls \in LogSinkOutcomes :
        Commit([op |-> "delete_payment", payment_id |-> payment_id],
               delete_payment(payment_id, ls))

ApplyPayment ==
    /\ uuid_count < MaxUuid
    /\ \E application \in PaymentApplicationInputs,
          gw \in GatewayOutcomes, ls \in LogSinkOutcomes :
        Commit([op |-> "apply_payment", application |-> application],
               apply_payment(application, datetime_now, gw, ls))

GetApplicationInfo ==
    \E application_id \in Uuids, ls \in LogSinkOutcomes :
        Commit([op |-> "get_application_info", application_id |-> application_id],
               get_application_info(application_id, ls))

ApproveApplication ==
    \E application_id \in Uuids, ls \in LogSinkOutcomes :
      \E gws \in AnswersIf(~approve_application_not_found(application_id), GatewayPairs) :
        /\ ~approve_application_not_found(application_id) => uuid_count < MaxUuid
        /\ Commit([op |-> "approve_application", application_id |-> application_id],
                  approve_application(application_id, datetime_now, gws, ls))

RejectApplication ==
    \E application_id \in Uuids, reason \in Reasons, ls \in LogSinkOutcomes :
      \E gw \in AnswersIf(application_id \in DOMAIN payment_applications, GatewayOutcomes) :
        Commit([op |-> "reject_application", application_id |-> application_id,
                reason |-> reason],
               reject_application(application_id, reason, gw, ls))

DeleteApplication ==
    \E application_id \in Uuids, ls \in LogSinkOutcomes :
      \E gw \in AnswersIf(application_id \in DOMAIN payment_applications, GatewayOutcomes) :
        Commit([op |-> "delete_application", application_id |-> application_id],
               delete_application(application_id, gw, ls))

DownloadPayment ==
    \E payment_id \in Uuids, writable \in BOOLEAN, ls \in LogSinkOutcomes :
        Commit([op |-> "download_payment", payment_id |-> payment_id,
                writable |-> writable],
               download_payment(payment_id, datetime_now, writable, ls))

ExportPayments ==
    \E writable \in BOOLEAN, ls \in LogSinkOutcomes :
        Commit([op |-> "export_payments", writable |-> writable],
               export_payments(datetime_now, writable, ls))

Next ==
    \/ GetPaymentService
    \/ AddPaymentService
    \/ UpdatePaymentService
    \/ DeletePaymentService
    \/ CreatePayment
    \/ GetPaymentInfo
    \/ UpdatePayment
    \/ ProcessPayment
    \/ FailPayment
    \/ DeletePayment
    \/ ApplyPayment
    \/ GetApplicationInfo
    \/ ApproveApplication
    \/ RejectApplication
    \/ DeleteApplication
    \/ DownloadPayment
    \/ ExportPayments

Spec == Init /\ [][Next]_vars

\* the routes of the application: the handler a request reaches, run with the
\* given answers of the gateway and of the log sink
Dispatch(req, gws, ls) ==
    CASE req.op = "get_payment_service" -> get_payment_service(req.service_id, ls)
      [] req.op = "add_payment_service" -> add_payment_service(req.service, ls)
      [] req.op = "update_payment_service" ->
            update_payment_service(req.service_id, req.service_update, ls)
      [] req.op = "delete_payment_service" -> delete_payment_service(req.service_id, ls)
      [] req.op = "create_payment" -> create_payment(req.payment, datetime_now, gws[1], ls)
      [] req.op = "get_payment_info" -> get_payment_info(req.payment_id, ls)
      [] req.op = "update_payment" ->
            update_payment(req.payment_id, req.payment_update, gws, ls)
      [] req.op = "process_payment" ->
            process_payment(req.payment_id, req.transaction_id, gws[1], ls)
      [] req.op = "fail_payment" -> fail_payment(req.payment_id, gws[1], ls)
      [] req.op = "delete_payment" -> delete_payment(req.payment_id, ls)
      [] req.op = "apply_payment" -> apply_payment(req.application, datetime_now, gws[1], ls)
      [] req.op = "get_application_info" -> get_application_info(req.application_id, ls)
      [] req.op = "approve_application" ->
            approve_application(req.application_id, datetime_now, gws, ls)
      [] req.op = "reject_application" ->
            reject_application(req.application_id, req.reason, gws[1], ls)
      [] req.op = "delete_application" -> delete_application(req.application_id, gws[1], ls)
      [] req.op = "download_payment" ->
            download_payment(req.payment_id, datetime_now, req.writable, ls)
      [] req.op = "export_payments" -> export_payments(datetime_now, req.writable, ls)

(***************************************************************************)
(* The engine with two services in its registry.  The requests reach the   *)
(* same handlers through the same routes; the gateway and the log sink     *)
(* answer every call and the export directory is writable, so that the     *)
(* registry can hold two services within the same bounds.                  *)
(***************************************************************************)
TwoServiceIds == {"s1", "s2"}
AllAnswered == [i \in 1..2 |-> 200]

\* a request served with every downstream call answered
Serve(req) == Commit(req, Dispatch(req, AllAnswered, 200))

Two_AddPaymentService ==
    \E service_id \in TwoServiceIds :
        Serve([op |-> "add_payment_service",
               service |-> [service_id |-> service_id, name |-> "Math",
                            description |-> "d1", base_price |-> 100]])

\* PaymentServiceUpdate.model_dump(exclude_unset = True) of the requests sent
TwoUpdateInputs ==
    {EmptyDict, [name |-> "Algebra"], [base_price |-> 200],
     [name |-> "Math", description |-> "d2"]}

Two_UpdatePaymentService ==
    \E service_id \in TwoServiceIds, service_update \in TwoUpdateInputs :
        Serve([op |-> "update_payment_service", service_id |-> service_id,
               service_update |-> service_update])

Two_DeletePaymentService ==
    \E service_id \in TwoServiceIds :
        Serve([op |-> "delete_payment_service", service_id |-> service_id])

Two_CreatePayment ==
    /\ uuid_count < MaxUuid
    /\ \E service_id \in TwoServiceIds :
        Serve([op |-> "create_payment",
               payment |-> [service_id |-> service_id, amount |-> 100,
                            user_id |-> "u1", email |-> "a@example.com"]])

Two_ApplyPayment ==
    /\ uuid_count < MaxUuid
    /\ \E service_id \in TwoServiceIds :
        Serve([op |-> "apply_payment",
               application |-> [user_id |-> "u1", service_id |-> service_id,
                                amount |-> 100, reason |-> "r1",
                                email |-> "a@example.com"]])

Two_UpdatePayment ==
    \E payment_id \in DOMAIN payments, status \in {"paid", "failed"} :
        Serve([op |-> "update_payment", payment_id |-> payment_id,
               payment_update |-> [status |-> status]])

Two_ProcessPayment ==
    \E payment_id \in DOMAIN payments :
        Serve([op |-> "process_payment", payment_id |-> payment_id,
               transaction_id |-> "tx-1"])

Two_FailPayment ==
    \E payment_id \in DOMAIN payments :
        Serve([op |-> "fail_payment", payment_id |-> payment_id])

Two_ApproveApplication ==
    /\ uuid_count < MaxUuid
    /\ \E application_id \in DOMAIN payment_applications :
        Serve([op |-> "approve_application", application_id |-> application_id])

Two_RejectApplication ==
    \E application_id \in DOMAIN payment_applications :
        Serve([op |-> "reject_application", application_id |-> application_id,
               reason |-> "r1"])

Two_DeleteApplication ==
    \E application_id \in DOMAIN payment_applications :
        Serve([op |-> "delete_application", application_id |-> application_id])

Two_DownloadPayment ==
    \E payment_id \in DOMAIN payments :
        Serve([op |-> "download_payment", payment_id |-> payment_id,
               writable |-> TRUE])

Two_ExportPayments ==
    Serve([op |-> "export_payments", writable |-> TRUE])

TwoServicesNext ==
    \/ Two_AddPaymentService
    \/ Two_DeletePaymentService
    \/ Two_CreatePayment
    \/ Two_ApplyPayment
    \/ Two_UpdatePayment
    \/ Two_ProcessPayment
    \/ Two_FailPayment
    \/ Two_ApproveApplication
    \/ Two_RejectApplication
    \/ Two_DeleteApplication
    \/ Two_DownloadPayment
    \/ Two_ExportPayments

TwoServicesSpec == Init /\ [][TwoServicesNext]_vars

\* the registry of two services under partial updates, with payments and
\* applications that reference the services
RegistryNext ==
    \/ Two_AddPaymentService
    \/ Two_UpdatePaymentService
    \/ Two_DeletePaymentService
    \/ Two_CreatePayment
    \/ Two_ApplyPayment

RegistrySpec == Init /\ [][RegistryNext]_vars

(***************************************************************************)
(* Concurrent requests.  Every handler is an async def without an await    *)
(* (the downstream calls are blocking requests.post calls), so the event   *)
(* loop runs the handler of an accepted request from its first line to its *)
(* return before it starts another one.  Requests that were accepted       *)
(* together are served in any order.                                       *)
(***************************************************************************)
MaxInFlight == 2

RemoveAt(seq, i) == SubSeq(seq, 1, i - 1) \o SubSeq(seq, i + 1, Len(seq))

\* the server accepts a request while handlers of earlier ones have not run
Accept(req) ==
    /\ Len(in_flight) < MaxInFlight
    /\ in_flight' = Append(in_flight, req)
    /\ UNCHANGED <<payment_services, payments, payment_applications, uuid_count,
                   request, response, mails, logs, log_files, background_tasks,
                   email_config, smtp, client>>

Accept_UpdatePayment ==
    \E payment_id \in DOMAIN payments, status \in {"paid", "failed"} :
        Accept([op |-> "update_payment", payment_id |-> payment_id,
                payment_update |-> [status |-> status]])

Accept_DeletePayment ==
    \E payment_id \in DOMAIN payments :
        Accept([op |-> "delete_payment", payment_id |-> payment_id])

Accept_DeleteApplication ==
    \E application_id \in DOMAIN payment_applications :
        Accept([op |-> "delete_application", application_id |-> application_id])

\* a handler that is suspended between its existence check and its mutation
\* while the delete of the same payment, also in flight, removes the entry
RunHandler_suspended(i, gw) ==
    /\ i \in DOMAIN in_flight
    /\ LET req == in_flight[i]
           checked == Dispatch(req, [k \in 1..2 |-> gw], 200)
           Racing == {j \in DOMAIN in_flight \ {i} :
                         /\ in_flight[j].op = "delete_payment"
                         /\ req.op \in {"update_payment", "delete_payment"}
                         /\ in_flight[j].payment_id = req.payment_id}
       IN  IF Racing = {} \/ checked.response.status_code # 200
           THEN Handle(req, checked)
           ELSE Handle(req, [checked EXCEPT
                               !.payments = DictDel(payments, req.payment_id),
                               !.response = HTTPException(500, "Internal Server Error")])
    /\ in_flight' = RemoveAt(in_flight, i)

\* the event loop runs the handler of the i-th request in flight, whole
RunHandler(i, gw) ==
    /\ i \in DOMAIN in_flight
    /\ Handle(in_flight[i], Dispatch(in_flight[i], [k \in 1..2 |-> gw], 200))
    /\ in_flight' = RemoveAt(in_flight, i)

RunInFlight == \E i \in 1..MaxInFlight : RunHandler(i, 200)

\* the entities the racing requests address
One_AddPaymentService ==
    Serve([op |-> "add_payment_service",
           service |-> [service_id |-> "s1", name |-> "Math",
                        description |-> "d1", base_price |-> 100]])

One_CreatePayment ==
    /\ uuid_count < MaxUuid
    /\ Serve([op |-> "create_payment",
              payment |-> [service_id |-> "s1", amount |-> 100,
                           user_id |-> "u1", email |-> "a@example.com"]])

One_ApplyPayment ==
    /\ uuid_count < MaxUuid
    /\ Serve([op |-> "apply_payment",
              application |-> [user_id |-> "u1", service_id |-> "s1",
                               amount |-> 100, reason |-> "r1",
                               email |-> "a@example.com"]])

ConcurrentNext ==
    \/ One_AddPaymentService
    \/ One_CreatePayment
    \/ One_ApplyPayment
    \/ Accept_UpdatePayment
    \/ Accept_DeletePayment
    \/ Accept_DeleteApplication
    \/ RunInFlight

ConcurrentSpec == Init /\ [][ConcurrentNext]_vars

(***************************************************************************)
(* Applications that are approved and rejected again and again.  Every     *)
(* approve draws a uuid, so the number of linked payments is capped here   *)
(* instead of the number of uuids.                                         *)
(***************************************************************************)
MaxApprovals == 2

Again_ApproveApplication ==
    /\ Cardinality(DOMAIN payments) < MaxApprovals
    /\ \E application_id \in DOMAIN payment_applications, gws \in GatewayPairs :
        Commit([op |-> "approve_application", application_id |-> application_id],
               approve_application(application_id, datetime_now, gws, 200))

Again_RejectApplication ==
    \E application_id \in DOMAIN payment_applications, gw \in GatewayOutcomes :
        Commit([op |-> "reject_application", application_id |-> application_id,
                reason |-> "r1"],
               reject_application(application_id, "r1", gw, 200))

ApplicationsNext ==
    \/ One_AddPaymentService
    \/ One_ApplyPayment
    \/ Again_ApproveApplication
    \/ Again_RejectApplication

ApplicationsSpec == Init /\ [][ApplicationsNext]_vars

(***************************************************************************)
(* Log Sink (src/logger_service/main.py).  A text is the sequence of its   *)
(* words.  log_files maps the name of every service whose log file exists  *)
(* to the lines of the file; the runs stay far below the 10 MB of a        *)
(* segment, so the file is never rotated.  background_tasks holds, for     *)
(* every request answered, the log_to_file tasks it added and that have    *)
(* not run yet; the tasks of a request run in the order they were added.   *)
(***************************************************************************)
\* number of records the sink accepts and has not dropped
MaxLogs == 2

LogServices == {"svc", "other"}
LogLevels == {"INFO", "ERROR"}

\* the LogEntry bodies posted: level is any str; details is a dict, and the
\* empty dict stands for a request without details too (both are false in
\* the test of line 84)
LogEntryInputs ==
    {[service |-> "svc", level |-> "INFO", message |-> <<"up">>, details |-> EmptyDict],
     [service |-> "svc", level |-> "error", message |-> <<"INFO", "seen">>,
      details |-> EmptyDict],
     [service |-> "svc", level |-> "WARNING", message |-> <<"slow">>,
      details |-> [code |-> "INFO"]],
     [service |-> "svc", level |-> "CRITICAL", message |-> <<"down">>,
      details |-> EmptyDict],
     [service |-> "other", level |-> "INFO", message |-> <<"up">>, details |-> EmptyDict]}

\* the LogBatchRequest bodies posted
LogBatchInputs ==
    {<<>>,
     <<[service |-> "svc", level |-> "INFO", message |-> <<"up">>, details |-> EmptyDict],
       [service |-> "other", level |-> "INFO", message |-> <<"up">>, details |-> EmptyDict]>>,
     <<[service |-> "svc", level |-> "CRITICAL", message |-> <<"down">>, details |-> EmptyDict],
       [service |-> "svc", level |-> "error", message |-> <<"INFO", "seen">>,
        details |-> EmptyDict]>>}

\* the limit and offset query parameters: any int
LimitInputs == {-1, 1, 100}
OffsetInputs == {-1, 0, 1}

\* str.upper()
upper(s) ==
    CASE s = "info" -> "INFO"
      [] s = "error" -> "ERROR"
      [] s = "warning" -> "WARNING"
      [] s = "debug" -> "DEBUG"
      [] OTHER -> s

\* part in text (str.__contains__): part occurs in text as a run of words
Contains(text, part) ==
    \E i \in 0..(Len(text) - Len(part)) : SubSeq(text, i + 1, i + Len(part)) = part

\* json.dumps of a dict of one key
json_dumps(details) ==
    LET k == CHOOSE k \in DOMAIN details : TRUE
    IN  <<"{", k, ":", details[k], "}">>

\* Formatter('%(asctime)s - %(levelname)s - %(message)s')
Format(levelname, message) == <<"asctime", "-", levelname, "-">> \o message

\* get_logger: the RotatingFileHandler of a new logger opens, and so
\* creates, the log file of the service
get_logger(files, service_name) ==
    IF service_name \in DOMAIN files THEN files ELSE DictSet(files, service_name, <<>>)

\* log_to_file: the log files after the task; a level that is none of the
\* four writes nothing
log_to_file(files, log_entry) ==
    LET opened == get_logger(files, log_entry.service)
        log_message == IF log_entry.details # EmptyDict
                       THEN log_entry.message \o <<"-", "Details:">>
                              \o json_dumps(log_entry.details)
                       ELSE log_entry.message
        levelname == upper(log_entry.level)
    IN  IF levelname \in {"INFO", "ERROR", "WARNING", "DEBUG"}
        THEN DictSet(opened, log_entry.service,
                     Append(opened[log_entry.service], Format(levelname, log_message)))
        ELSE opened

\* a slice bound of a list of n items: a negative bound counts from the end,
\* and every bound is clipped to 0 .. n
SliceIndex(i, n) ==
    IF i < 0 THEN (IF n + i < 0 THEN 0 ELSE n + i)
    ELSE (IF i > n THEN n ELSE i)

\* filtered_logs[offset : offset + limit]
Slice(seq, offset, limit) ==
    LET start == SliceIndex(offset, Len(seq))
        stop == SliceIndex(offset + limit, Len(seq))
    IN  SubSeq(seq, start + 1, stop)

\* [log for log in logs if level in log]
RECURSIVE Filter(_, _)
Filter(lines, level) ==
    IF lines = <<>> THEN <<>>
    ELSE (IF Contains(Head(lines), <<level>>) THEN <<Head(lines)>> ELSE <<>>)
           \o Filter(Tail(lines), level)

\* get_logs: the answer to GET /logs/{service_name}
get_logs(service_name, level, limit, offset) ==
    IF service_name \notin DOMAIN log_files
    THEN Ok([logs |-> <<>>, total |-> 0])
    ELSE LET lines == log_files[service_name]
             filtered_logs == IF level \notin {None, ""} THEN Filter(lines, level)
                              ELSE lines
         IN  Ok([logs |-> Slice(filtered_logs, offset, limit),
                 total |-> Len(filtered_logs)])

\* the records accepted and neither written nor dropped yet, and the lines
\* written
RECURSIVE SumLen(_)
SumLen(seqs) == IF seqs = <<>> THEN 0 ELSE Len(Head(seqs)) + SumLen(Tail(seqs))

RECURSIVE Lines(_, _)
Lines(files, names) ==
    IF names = {} THEN 0
    ELSE LET n == CHOOSE n \in names : TRUE
         IN  Len(files[n]) + Lines(files, names \ {n})

Held == SumLen(background_tasks) + Lines(log_files, DOMAIN log_files)

\* a step of the sink leaves the engine alone
SinkStep(req, resp) ==
    /\ request' = req
    /\ response' = resp
    /\ UNCHANGED <<payment_services, payments, payment_applications, uuid_count,
                   mails, logs, email_config, smtp, client, in_flight>>

\* POST /log: the task is added and the answer is sent; the write comes later
CreateLog ==
    /\ Held < MaxLogs
    /\ \E log_entry \in LogEntryInputs :
        /\ background_tasks' = Append(background_tasks, <<log_entry>>)
        /\ log_files' = log_files
        /\ SinkStep([op |-> "create_log", log_entry |-> log_entry],
                    Ok([status |-> "success"]))

\* POST /log/batch: one task for every record, in the order of the request
CreateLogsBatch ==
    \E batch \in LogBatchInputs :
        /\ Held + Len(batch) <= MaxLogs
        /\ background_tasks' = IF batch = <<>> THEN background_tasks
                               ELSE Append(background_tasks, batch)
        /\ log_files' = log_files
        /\ SinkStep([op |-> "create_logs_batch", logs |-> batch],
                    Ok([status |-> "success", count |-> Len(batch)]))

\* the next task of the b-th answered request runs
RunTask(b) ==
    /\ b \in DOMAIN background_tasks
    /\ LET tasks == background_tasks[b]
           rest == Tail(tasks)
       IN  /\ log_files' = log_to_file(log_files, Head(tasks))
           /\ background_tasks' =
                 IF rest = <<>>
                 THEN SubSeq(background_tasks, 1, b - 1)
                        \o SubSeq(background_tasks, b + 1, Len(background_tasks))
                 ELSE [background_tasks EXCEPT ![b] = rest]
           /\ SinkStep([op |-> "log_to_file", log_entry |-> Head(tasks)], response)

RunBackgroundTask == \E b \in 1..MaxLogs : RunTask(b)

GetLogs ==
    \E service_name \in LogServices, level \in LogLevels \cup {None},
       limit \in LimitInputs, offset \in OffsetInputs :
        /\ UNCHANGED <<log_files, background_tasks>>
        /\ SinkStep([op |-> "get_logs", service_name |-> service_name,
                     level |-> level, limit |-> limit, offset |-> offset],
                    get_logs(service_name, level, limit, offset))

LogNext ==
    \/ CreateLog
    \/ CreateLogsBatch
    \/ RunBackgroundTask
    \/ GetLogs

LogSpec == Init /\ [][LogNext]_vars

\* the framework runs the tasks of every answered request: the oldest
\* request with tasks left always gets its next task run
LogFairSpec == LogSpec /\ WF_background_tasks(RunTask(1))

(***************************************************************************)
(* Notification Gateway (src/mailer_service/main.py).  A request is served *)
(* to completion: smtp holds the sessions the request opened with the mail *)
(* transport, logs the calls it made to its LoggerClient.  transport says  *)
(* how far an SMTP session gets: "ok", or the step that raises.  testing   *)
(* says whether the environment variable TESTING is "True".                *)
(***************************************************************************)
\* TemplateManager.templates: the registry of named templates, with the
\* words of the default subject and the variable the subject names
Templates ==
    [payment_created |-> [subject |-> "Payment Created:", key |-> "payment_id"],
     payment_success |-> [subject |-> "Payment Successful:", key |-> "payment_id"],
     payment_failed |-> [subject |-> "Payment Failed:", key |-> "payment_id"],
     application_created |-> [subject |-> "Application Created:", key |-> "application_id"],
     application_approved |-> [subject |-> "Application Approved:", key |-> "application_id"],
     application_rejected |-> [subject |-> "Application Rejected:", key |-> "application_id"],
     application_deleted |-> [subject |-> "Application Deleted:", key |-> "application_id"]]

\* the files of TEMPLATE_DIR: _create_default_templates writes an html and
\* a text file for each of the seven templates
TemplateFiles == {<<t, ext>> : t \in DOMAIN Templates, ext \in {"html", "txt"}}

RecipientInputs == {<<>>, <<"a@example.com">>, <<"a@example.com", "b@example.com">>}
\* cc: a list, or none (the empty list reads the same in every test made)
CcInputs == {<<>>, <<"c@example.com">>}
TemplateIdInputs == {"payment_created", "application_deleted", "welcome", ""}
TemplateDataInputs == {EmptyDict, [payment_id |-> "1", amount |-> 100]}
\* subject: a text, or none (the empty text reads the same in line 664)
SubjectInputs == {"", "Hello"}
TransportOutcomes == {"ok", "connect", "starttls", "login", "sendmail", "quit"}

\* a call to the LoggerClient("mailer-service") of the gateway
mailer_log(level, message, ls) ==
    LET r == LoggerClient_send_log("mailer-service", level, message, EmptyDict, ls)
    IN  [level |-> r.posts[1].json.level, message |-> r.posts[1].json.message,
         raised |-> r.raised]

\* the session smtplib opens with the configured server: it gets as far as
\* the step that raises
Session(from_email, all_recipients, subject, transport) ==
    [server |-> email_config.smtp_server, port |-> email_config.smtp_port,
     from |-> from_email, recipients |-> all_recipients, subject |-> subject,
     raised_at |-> transport,
     \* sendmail has run to its end
     sent |-> transport \in {"ok", "quit"}]

\* a sender that tries a second session when the first one raises
send_email_retry(to_emails, subject, html_content, text_content, from_email, cc, bcc, testing, transport, ls) ==
    IF to_emails = <<>>
    THEN [result |-> FALSE, smtp |-> <<>>,
          logs |-> <<mailer_log("ERROR", "No recipients specified", ls)>>]
    ELSE IF testing
    THEN [result |-> TRUE, smtp |-> <<>>,
          logs |-> <<mailer_log("INFO", "Connecting to SMTP server", ls),
                     mailer_log("INFO", "[TEST MODE] Would send email", ls)>>]
    ELSE IF transport = "ok"
    THEN [result |-> TRUE,
          smtp |-> <<Session(from_email, to_emails \o cc \o bcc, subject, transport)>>,
          logs |-> <<mailer_log("INFO", "Connecting to SMTP server", ls),
                     mailer_log("INFO", "Email sent successfully", ls)>>]
    ELSE [result |-> TRUE,
          smtp |-> <<Session(from_email, to_emails \o cc \o bcc, subject, transport),
                     Session(from_email, to_emails \o cc \o bcc, subject, "ok")>>,
          logs |-> <<mailer_log("INFO", "Connecting to SMTP server", ls),
                     mailer_log("INFO", "Email sent successfully", ls)>>]

\* EmailSender.send_email
send_email(to_emails, subject, html_content, text_content, from_email, cc, bcc, testing, transport, ls) ==
    IF to_emails = <<>>
    THEN [result |-> FALSE, smtp |-> <<>>,
          logs |-> <<mailer_log("ERROR", "No recipients specified", ls)>>]
    ELSE IF testing
    THEN [result |-> TRUE, smtp |-> <<>>,
          logs |-> <<mailer_log("INFO", "Connecting to SMTP server", ls),
                     mailer_log("INFO", "[TEST MODE] Would send email", ls)>>]
    ELSE LET from == IF from_email # "" THEN from_email ELSE email_config.default_sender
             \* to_emails.copy() extended by cc and bcc
             all_recipients == to_emails \o cc \o bcc
             session == Session(from, all_recipients, subject, transport)
         IN  IF transport = "ok"
             THEN [result |-> TRUE, smtp |-> <<session>>,
                   logs |-> <<mailer_log("INFO", "Connecting to SMTP server", ls),
                              mailer_log("INFO", "Email sent successfully", ls)>>]
             ELSE [result |-> FALSE, smtp |-> <<session>>,
                   logs |-> <<mailer_log("INFO", "Connecting to SMTP server", ls),
                              mailer_log("ERROR", "Failed to send email", ls),
                              mailer_log("ERROR", "traceback", ls)>>]

\* TemplateManager.get_template_subject
get_template_subject(template_id) ==
    IF template_id \in DOMAIN Templates
    THEN <<Templates[template_id].subject, <<"{{", Templates[template_id].key, "}}">> >>
    ELSE <<"Notification">>

\* a renderer that falls back to a generic page for a template it cannot load
render_template_fallback(template_id, template_data, ls) ==
    [raised |-> FALSE,
     html_content |-> <<"generic", "html", template_data>>,
     text_content |-> <<"Please use an HTML-compatible email client">>,
     logs |-> <<>>]

\* TemplateManager.render_template: get_template raises TemplateNotFound for
\* a name that is no file of TEMPLATE_DIR; the text version falls back to a
\* fixed line
render_template(template_id, template_data, ls) ==
    IF <<template_id, "html">> \notin TemplateFiles
    THEN [raised |-> TRUE, html_content |-> <<>>, text_content |-> <<>>,
          logs |-> <<mailer_log("ERROR", "Error rendering template", ls)>>]
    ELSE [raised |-> FALSE,
          html_content |-> <<template_id, "html", template_data>>,
          text_content |-> IF <<template_id, "txt">> \in TemplateFiles
                           THEN <<template_id, "txt", template_data>>
                           ELSE <<"Please use an HTML-compatible email client">>,
          logs |-> <<>>]

\* subject.replace("{{key}}", str(value)) for every item of template_data
ReplaceVariables(subject, template_data) ==
    [i \in DOMAIN subject |->
        IF Len(subject[i]) = 3 /\ subject[i][1] = "{{" /\ subject[i][2] \in DOMAIN template_data
        THEN <<ToString(template_data[subject[i][2]])>>
        ELSE subject[i]]

MailerResult(resp, sessions, ls) == [response |-> resp, smtp |-> sessions, logs |-> ls]

\* POST /send
send_email_endpoint(req, testing, transport, ls) ==
    LET html_body == IF req.html_body # "" THEN req.html_body ELSE req.body
        sent == send_email(req.to, req.subject, html_body, req.body, req.sender,
                           req.cc, req.bcc, testing, transport, ls)
    IN  IF sent.result
        THEN MailerResult(Ok([status |-> "success", message |-> "Email sent successfully"]),
                          sent.smtp,
                          <<mailer_log("INFO", "Sending custom email", ls)>> \o sent.logs
                            \o <<mailer_log("INFO", "Email sent successfully from", ls)>>)
        ELSE MailerResult(HTTPException(500, "Failed to send email"),
                          sent.smtp,
                          <<mailer_log("INFO", "Sending custom email", ls)>> \o sent.logs
                            \o <<mailer_log("ERROR", "Failed to send email from", ls)>>)

\* POST /send-template: whatever is raised inside the try block, the
\* HTTPException of line 686 included, leaves as the 500 of line 689
send_template_email_endpoint(req, testing, transport, ls) ==
    LET rendered == render_template(req.template_id, req.template_data, ls)
        subject == ReplaceVariables(IF req.subject # "" THEN <<req.subject>>
                                    ELSE get_template_subject(req.template_id),
                                    req.template_data)
        sent == send_email(req.to, subject, rendered.html_content, rendered.text_content,
                           req.sender, req.cc, req.bcc, testing, transport, ls)
        first == <<mailer_log("INFO", "Sending template email", ls)>>
    IN  IF rendered.raised
        THEN MailerResult(HTTPException(500, "Error processing template: Template rendering error"),
                          <<>>,
                          first \o rendered.logs
                            \o <<mailer_log("ERROR", "Error processing template email", ls)>>)
        ELSE IF sent.result
        THEN MailerResult(Ok([status |-> "success",
                              message |-> "Template email sent successfully"]),
                          sent.smtp,
                          first \o rendered.logs \o sent.logs
                            \o <<mailer_log("INFO", "Template email sent successfully", ls)>>)
        ELSE MailerResult(HTTPException(500,
                              "Error processing template: 500: Failed to send template email"),
                          sent.smtp,
                          first \o rendered.logs \o sent.logs
                            \o <<mailer_log("ERROR", "Failed to send template email", ls),
                                 mailer_log("ERROR", "Error processing template email", ls)>>)

\* a step of the gateway leaves the engine and the sink alone
MailerStep(req, testing, transport, result) ==
    \E r \in {result} :
        /\ request' = req
        /\ response' = r.response
        /\ smtp' = r.smtp
        /\ logs' = r.logs
        /\ UNCHANGED <<payment_services, payments, payment_applications, uuid_count,
                       mails, log_files, background_tasks, email_config, client,
                       in_flight>>

SendEmail ==
    \E to \in RecipientInputs, cc \in CcInputs, html_body \in {"", "<p>hi</p>"},
       testing \in BOOLEAN, transport \in TransportOutcomes, ls \in LogSinkOutcomes :
      \E req \in {[body |-> "hi", to |-> to, source_service |-> "payment-service",
                   op |-> "send", subject |-> "Hello", transport |-> transport,
                   cc |-> cc, bcc |-> <<>>, testing |-> testing,
                   html_body |-> html_body, sender |-> ""]} :
        MailerStep(req, testing, transport,
                   send_email_endpoint(req, testing, transport, ls))

SendTemplateEmail ==
    \E to \in RecipientInputs, cc \in CcInputs, template_id \in TemplateIdInputs,
       template_data \in TemplateDataInputs, subject \in SubjectInputs,
       testing \in BOOLEAN, transport \in TransportOutcomes, ls \in LogSinkOutcomes :
      \E req \in {[template_id |-> template_id, template_data |-> template_data,
                   to |-> to, source_service |-> "payment-service",
                   op |-> "send_template", subject |-> subject, transport |-> transport,
                   cc |-> cc, bcc |-> <<>>, testing |-> testing, sender |-> ""]} :
        MailerStep(req, testing, transport,
                   send_template_email_endpoint(req, testing, transport, ls))

MailerNext ==
    \/ SendEmail
    \/ SendTemplateEmail

MailerSpec == Init /\ [][MailerNext]_vars

(***************************************************************************)
(* LoggerClient (src/common_utils/common_utils/logger/client.py) called    *)
(* on its own: the two clients of the repository, the four methods, with   *)
(* and without details, against every kind of answer of the Log Sink.      *)
(***************************************************************************)
ClientServices == {"payment-service", "mailer-service"}
ClientMessages == {"m1", "m2"}
ClientDetails == {EmptyDict, [service_id |-> "s1"]}
\* the status the POST is answered with, or 0: the POST raises
ClientAnswers == {200, 201, 404, 500, 0}

\* a call of a method of the client leaves the services alone
ClientCall(service_name, method, level, message, details, answer) ==
    /\ client' = LoggerClient_send_log(service_name, level, message, details, answer)
    /\ request' = [op |-> "logger_client", method |-> method,
                   service_name |-> service_name, message |-> message,
                   details |-> details, answer |-> answer]
    /\ UNCHANGED <<payment_services, payments, payment_applications, uuid_count,
                   response, mails, logs, log_files, background_tasks,
                   email_config, smtp, in_flight>>

Client_info ==
    \E service_name \in ClientServices, message \in ClientMessages,
       details \in ClientDetails, answer \in ClientAnswers :
        ClientCall(service_name, "info", "INFO", message, details, answer)

Client_error ==
    \E service_name \in ClientServices, message \in ClientMessages,
       details \in ClientDetails, answer \in ClientAnswers :
        ClientCall(service_name, "error", "ERROR", message, details, answer)

Client_warning ==
    \E service_name \in ClientServices, message \in ClientMessages,
       details \in ClientDetails, answer \in ClientAnswers :
        ClientCall(service_name, "warning", "WARNING", message, details, answer)

Client_debug ==
    \E service_name \in ClientServices, message \in ClientMessages,
       details \in ClientDetails, answer \in ClientAnswers :
        ClientCall(service_name, "debug", "DEBUG", message, details, answer)

ClientNext ==
    \/ Client_info
    \/ Client_error
    \/ Client_warning
    \/ Client_debug

ClientSpec == Init /\ [][ClientNext]_vars

(***************************************************************************)
(* Vocabulary of the properties                                            *)
(***************************************************************************)
Succeeded == response.status_code = 200
NotFound == response.status_code = 404
Conflict == response.status_code = 400 /\ response.detail = "Service ID already exists"

\* the notification attempts of the last operation that used a template
MailsOf(template_id) == {i \in DOMAIN mails : mails[i].template_id = template_id}
FailedMails == {i \in DOMAIN mails : ~mails[i].delivered}
Warnings == {i \in DOMAIN logs : logs[i].level = "WARNING"}

StoreUnchanged ==
    /\ payment_services' = payment_services
    /\ payments' = payments
    /\ payment_applications' = payment_applications

\* the last operation was create_payment for a service_id that is no key of
\* the services map (create_payment leaves that map alone)
CreateForUnregistered ==
    /\ request.op = "create_payment"
    /\ request.payment.service_id \notin DOMAIN payment_services

(***************************************************************************)
(* C1: CreatePayment with a service_id that is not registered fails with   *)
(* NotFound (HTTP 404), whatever the services map holds.                   *)
(* The code answers 500: the HTTPException(404) of line 285 is raised      *)
(* inside the try block and replaced by the except clause of line 316.     *)
(***************************************************************************)
C1_UnregisteredCreateIsNotFound == CreateForUnregistered => NotFound

(***************************************************************************)
(* C2: when CreatePayment fails because the service_id is not registered,  *)
(* the payments map is the one before the call and no notification is      *)
(* issued.  The code stores the payment (line 276) before it looks the     *)
(* service up, and nothing removes it when the call fails.                 *)
(***************************************************************************)
C2_FailedCreateAddsNoPayment ==
    [][CreateForUnregistered' => (payments' = payments /\ mails' = <<>>)]_vars

(***************************************************************************)
(* C3: UpdatePaymentStatus on an existing payment attempts payment_success *)
(* exactly when the new status is "paid", payment_failed exactly when it   *)
(* is "failed", and nothing for any other status.  The code makes both     *)
(* attempts on every update: the two calls stand outside the if / elif.    *)
(***************************************************************************)
C3_UpdateNotifiesByStatus ==
    (request.op = "update_payment" /\ Succeeded) =>
        /\ (MailsOf("payment_success") # {}) <=> (request.payment_update.status = "paid")
        /\ (MailsOf("payment_failed") # {}) <=> (request.payment_update.status = "failed")
        /\ Cardinality(DOMAIN mails) <= 1

(***************************************************************************)
(* C4: a successful ApproveApplication(id) sets the application to         *)
(* "approved" and adds exactly one Payment under a fresh payment_id, with  *)
(* status "pending" and the application's amount, email, service_id and    *)
(* user_id; the other payments are unchanged and the returned payment_id   *)
(* is the key of the new payment.                                          *)
(***************************************************************************)
ApproveSucceeded == request.op = "approve_application" /\ Succeeded

Rejected(id) ==
    id \in DOMAIN payment_applications /\ payment_applications[id].status = "rejected"

ApproveOf(id) == request.op = "approve_application" /\ request.application_id = id

C5_RejectedNeverApproved ==
    [][\A id \in Uuids :
        (Rejected(id) /\ id \in DOMAIN payment_applications') =>
            /\ payment_applications'[id].status # "approved"
            /\ ~(ApproveOf(id)' /\ DOMAIN payments' # DOMAIN payments)]_vars

(***************************************************************************)
(* C5 amended: a "rejected" application stays "rejected" under every       *)
(* operation except ApproveApplication and DeleteApplication on it, and    *)
(* no operation but that ApproveApplication creates a Payment for it; the  *)
(* engine does not block a                                                 *)
(* later ApproveApplication on it, which succeeds, sets it to "approved"   *)
(* and creates one Payment.                                                *)
(***************************************************************************)
C5_RejectedUntilApproved ==
    [][\A id \in Uuids : Rejected(id) =>
        IF ApproveOf(id)'
        THEN /\ Succeeded'
             /\ payment_applications'[id].status = "approved"
             /\ response'.body.payment_id \in DOMAIN payments' \ DOMAIN payments
        ELSE /\ (request'.op = "delete_application" /\ request'.application_id = id)
                  \/ Rejected(id)'
             /\ request'.op \notin {"create_payment", "approve_application"}
                  => DOMAIN payments' \subseteq DOMAIN payments]_vars

C5_Witness ==
    /\ request.op = "reject_application" /\ Succeeded
    /\ Rejected(request.application_id)

(***************************************************************************)
(* C6: a failure of the Notification Gateway call or of a Log Sink call    *)
(* never changes the outcome of an operation: the response and the         *)
(* services, payments and applications maps after the call are those of    *)
(* the same request served from the same state with every downstream call  *)
(* answered, so nothing committed is rolled back.                          *)
(***************************************************************************)
C6_DownstreamFailureIsInvisible ==
    [][\A r \in {Dispatch(request', AllAnswered, 200)} :
           /\ response' = r.response
           /\ payment_services' = r.payment_services
           /\ payments' = r.payments
           /\ payment_applications' = r.payment_applications]_vars

C6_Witness ==
    /\ request.op = "create_payment" /\ Succeeded
    /\ FailedMails # {}
    /\ response.body.payment_id \in DOMAIN payments

(***************************************************************************)
(* C7: every failed notification attempt of an operation is recorded by    *)
(* that operation as a WARNING record: an operation logs at least as many  *)
(* warnings as it has failed attempts.  approve_application drops the      *)
(* result of its payment_created attempt (lines 569-575).                  *)
(***************************************************************************)
C7_FailedNotificationWarned ==
    Cardinality(FailedMails) <= Cardinality(Warnings)

(***************************************************************************)
(* C8: CreatePayment with a registered service_id succeeds, returns a      *)
(* payment_id that was no key of the payments map, stores exactly one new  *)
(* Payment under it with status "pending", and issues one payment_created  *)
(* notification whose due date is the creation date plus 30 days;          *)
(* GetPaymentInfo then returns "pending" and the given amount.  The code   *)
(* fails the call when the registered service is named "Unknown Service",  *)
(* the value it uses for a service it did not find.                        *)
(***************************************************************************)
C8_RegisteredCreateSucceeds ==
    [][(request'.op = "create_payment"
          /\ request'.payment.service_id \in DOMAIN payment_services) =>
        /\ Succeeded'
        /\ \A pid \in Uuids : pid = response'.body.payment_id =>
               /\ pid \notin DOMAIN payments
               /\ DOMAIN payments' = DOMAIN payments \cup {pid}
               /\ \A p \in DOMAIN payments : payments'[p] = payments[p]
               /\ payments'[pid].status = "pending"
               /\ Len(mails') = 1
               /\ mails'[1].template_id = "payment_created"
               /\ mails'[1].template_data.due_date
                    = strftime_date(payments'[pid].created_at) + 30
               /\ get_payment_info(pid, 200)'.response.body.status = "pending"
               /\ get_payment_info(pid, 200)'.response.body.amount
                    = request'.payment.amount]_vars

(***************************************************************************)
(* C9: RegisterService with a service_id that is a key of the services map *)
(* fails with Conflict and leaves the stored definition and the rest of    *)
(* the state unchanged; with a new service_id it stores the definition     *)
(* under that key.                                                         *)
(***************************************************************************)
C9_RegisterConflict ==
    [][request'.op = "add_payment_service" =>
        LET service == request'.service
        IN  IF service.service_id \in DOMAIN payment_services
            THEN Conflict' /\ StoreUnchanged
            ELSE /\ Succeeded'
                 /\ DOMAIN payment_services'
                      = DOMAIN payment_services \cup {service.service_id}
                 /\ payment_services'[service.service_id] = service
                 /\ \A k \in DOMAIN payment_services :
                        payment_services'[k] = payment_services[k]
                 /\ payments' = payments
                 /\ payment_applications' = payment_applications]_vars

C9_Witness ==
    /\ request.op = "add_payment_service" /\ Conflict
    /\ payment_services[request.service.service_id].name # request.service.name

(***************************************************************************)
(* C10: for an id that is no key of the addressed map, Get, Update and     *)
(* Delete on services, payments and applications, and Process, Fail,       *)
(* Approve and Reject, fail with NotFound, leave the three maps unchanged  *)
(* and issue no notification.                                              *)
(***************************************************************************)
ServiceOps == {"get_payment_service", "update_payment_service", "delete_payment_service"}
PaymentOps == {"get_payment_info", "update_payment", "delete_payment",
               "process_payment", "fail_payment"}
ApplicationOps == {"get_application_info", "delete_application",
                   "approve_application", "reject_application"}

\* the request addresses an id that is no key of its map in the current state
UnknownId(req) ==
    \/ req.op \in ServiceOps /\ req.service_id \notin DOMAIN payment_services
    \/ req.op \in PaymentOps /\ req.payment_id \notin DOMAIN payments
    \/ req.op \in ApplicationOps /\ req.application_id \notin DOMAIN payment_applications

C10_UnknownIdIsNotFound ==
    [][UnknownId(request') => (NotFound' /\ StoreUnchanged /\ mails' = <<>>)]_vars

C10_Witness ==
    /\ request.op \in {"delete_payment", "approve_application", "update_payment_service"}
    /\ NotFound

(***************************************************************************)
(* C11: UpdatePaymentStatus on an existing payment succeeds from every     *)
(* current status to every requested status, values outside {pending,      *)
(* paid, failed, completed} included; afterwards the stored status and the *)
(* status GetPaymentInfo returns are the requested value.                  *)
(***************************************************************************)
UpdateOfExisting ==
    request.op = "update_payment" /\ request.payment_id \in DOMAIN payments

C11_UpdateAcceptsEveryTransition ==
    UpdateOfExisting =>
        /\ Succeeded
        /\ payments[request.payment_id].status = request.payment_update.status
        /\ response.body.status = request.payment_update.status
        /\ get_payment_info(request.payment_id, 200).response.body.status
             = request.payment_update.status

C11_Witness ==
    /\ UpdateOfExisting /\ Succeeded
    /\ payments[request.payment_id].status = "refunded"

(***************************************************************************)
(* C12: UpdatePaymentStatus is idempotent on the stored entity: in the     *)
(* state reached by an update, the same update (same id, same status),     *)
(* whatever the downstream calls answer, leaves the payments map as it is. *)
(***************************************************************************)
C12_UpdateIsIdempotent ==
    (request.op = "update_payment" /\ Succeeded) =>
        \A gws \in GatewayPairs, ls \in LogSinkOutcomes :
            update_payment(request.payment_id, request.payment_update, gws, ls).payments
              = payments

C12_Witness ==
    /\ request.op = "update_payment" /\ Succeeded
    /\ payments[request.payment_id].status = "paid"
    /\ FailedMails # {}

(***************************************************************************)
(* C13 as stated: ProcessPayment on an existing payment sets its status to *)
(* "paid" whatever the current status and issues exactly one               *)
(* payment_success notification that carries a transaction id: the         *)
(* supplied one when one is given, otherwise a freshly generated one.      *)
(* A request that gives the empty string is answered with a generated id:  *)
(* line 401 tests the truth value of request.transaction_id.               *)
(***************************************************************************)
ProcessOfExisting ==
    request.op = "process_payment" /\ request.payment_id \in DOMAIN payments

\* the transaction id is one uuid4() draws during the step
FreshlyGenerated(transaction_id) ==
    /\ transaction_id = uuid4
    /\ uuid_count' = uuid_count + 1
    /\ transaction_id \notin DOMAIN payments \cup DOMAIN payment_applications

\* what every ProcessPayment of an existing payment does, the choice of the
\* transaction id apart
ProcessedAndNotified ==
    /\ Succeeded'
    /\ payments'[request'.payment_id].status = "paid"
    /\ response'.body.status = "paid"
    /\ Len(mails') = 1
    /\ mails'[1].template_id = "payment_success"
    /\ "transaction_id" \in DOMAIN mails'[1].template_data

C13_ProcessCarriesGivenId ==
    [][ProcessOfExisting' =>
        /\ ProcessedAndNotified
        /\ IF request'.transaction_id # None
           THEN mails'[1].template_data.transaction_id = request'.transaction_id
           ELSE FreshlyGenerated(mails'[1].template_data.transaction_id)]_vars

(***************************************************************************)
(* C13 amended: ProcessPayment on an existing payment sets its status to   *)
(* "paid" whatever the current status and issues exactly one               *)
(* payment_success notification that carries a transaction id: the         *)
(* supplied one when a non-empty one is given, and a freshly generated one *)
(* when the request has no body, no transaction_id or an empty one.        *)
(***************************************************************************)
C13_ProcessCarriesNonEmptyId ==
    [][ProcessOfExisting' =>
        /\ ProcessedAndNotified
        /\ IF request'.transaction_id \notin {None, ""}
           THEN mails'[1].template_data.transaction_id = request'.transaction_id
           ELSE FreshlyGenerated(mails'[1].template_data.transaction_id)]_vars

C13_Witness ==
    /\ ProcessOfExisting /\ Succeeded
    /\ request.transaction_id = ""
    /\ mails[1].template_data.transaction_id = ToString(uuid_count)
    /\ payments[request.payment_id].status = "paid"

(***************************************************************************)
(* C14: FailPayment on an existing payment sets its status to "failed"     *)
(* whatever the current status, issues exactly one payment_failed          *)
(* notification and no payment_success notification, and GetPaymentInfo    *)
(* afterwards returns "failed".                                            *)
(***************************************************************************)
FailOfExisting ==
    request.op = "fail_payment" /\ request.payment_id \in DOMAIN payments

C14_FailSetsFailed ==
    FailOfExisting =>
        /\ Succeeded
        /\ payments[request.payment_id].status = "failed"
        /\ response.body.status = "failed"
        /\ Len(mails) = 1
        /\ Cardinality(MailsOf("payment_failed")) = 1
        /\ MailsOf("payment_success") = {}
        /\ get_payment_info(request.payment_id, 200).response.body.status = "failed"

C14_Witness ==
    /\ FailOfExisting /\ Succeeded
    /\ payments[request.payment_id].status = "failed"
    /\ MailsOf("payment_failed") = {1}

(***************************************************************************)
(* C15: ApplyForPayment with a service_id that is not registered fails     *)
(* with NotFound, adds no application and issues no notification; with a   *)
(* registered service_id it adds exactly one application, under a fresh    *)
(* application_id and with status "pending", issues one                    *)
(* application_created notification, and adds no Payment.                  *)
(***************************************************************************)
C15_ApplyChecksService ==
    [][request'.op = "apply_payment" =>
        IF request'.application.service_id \notin DOMAIN payment_services
        THEN /\ NotFound'
             /\ StoreUnchanged
             /\ mails' = <<>>
        ELSE LET id == response'.body.application_id
             IN  /\ Succeeded'
                 /\ id \notin DOMAIN payment_applications \cup DOMAIN payments
                 /\ DOMAIN payment_applications' = DOMAIN payment_applications \cup {id}
                 /\ \A a \in DOMAIN payment_applications :
                        payment_applications'[a] = payment_applications[a]
                 /\ payment_applications'[id].application_id = id
                 /\ payment_applications'[id].status = "pending"
                 /\ response'.body.status = "pending"
                 /\ Len(mails') = 1
                 /\ mails'[1].template_id = "application_created"
                 /\ mails'[1].template_data.application_id = id
                 /\ payments' = payments
                 /\ payment_services' = payment_services]_vars

C15_Witness ==
    /\ request.op = "apply_payment" /\ Succeeded
    /\ response.body.application_id \in DOMAIN payment_applications
    /\ MailsOf("application_created") = {1}
    /\ payments = EmptyDict

(***************************************************************************)
(* C16: DeleteApplication on an existing application issues the            *)
(* application_deleted notification while the application is still in the  *)
(* applications map, then removes the entry: after the call the id is      *)
(* absent whether or not the notification succeeded.                       *)
(***************************************************************************)
C16_DeleteNotifiesBeforeRemoval ==
    (request.op = "delete_application" /\ Succeeded) =>
        /\ Len(mails) = 1
        /\ mails[1].template_id = "application_deleted"
        /\ mails[1].template_data.application_id = request.application_id
        /\ request.application_id \in DOMAIN mails[1].at_dispatch.payment_applications
        /\ request.application_id \notin DOMAIN payment_applications

C16_Witness ==
    /\ request.op = "delete_application" /\ Succeeded
    /\ FailedMails = {1}
    /\ request.application_id \in DOMAIN mails[1].at_dispatch.payment_applications
    /\ request.application_id \notin DOMAIN payment_applications

(***************************************************************************)
(* C18: DeletePayment / DeleteApplication of an existing id removes        *)
(* exactly that entry and no other; afterwards Get and Delete on that id   *)
(* return NotFound; and deleting an id that is no key returns NotFound and *)
(* changes nothing, in every state, so before and after a successful       *)
(* delete of another entity.                                               *)
(***************************************************************************)
\* d2 is d without the key id, the other entries as they were
RemovedExactly(d, d2, id) ==
    /\ DOMAIN d2 = DOMAIN d \ {id}
    /\ \A k \in DOMAIN d2 : d2[k] = d[k]

C18_DeleteRemovesExactlyOne ==
    [][\A id \in Uuids :
        /\ (request'.op = "delete_payment" /\ request'.payment_id = id) =>
              IF id \in DOMAIN payments
              THEN /\ Succeeded'
                   /\ RemovedExactly(payments, payments', id)
                   /\ payment_applications' = payment_applications
                   /\ payment_services' = payment_services
                   /\ get_payment_info(id, 200)'.response.status_code = 404
                   /\ delete_payment(id, 200)'.response.status_code = 404
              ELSE NotFound' /\ StoreUnchanged
        /\ (request'.op = "delete_application" /\ request'.application_id = id) =>
              IF id \in DOMAIN payment_applications
              THEN /\ Succeeded'
                   /\ RemovedExactly(payment_applications, payment_applications', id)
                   /\ payments' = payments
                   /\ payment_services' = payment_services
                   /\ get_application_info(id, 200)'.response.status_code = 404
                   /\ delete_application(id, 200, 200)'.response.status_code = 404
              ELSE NotFound' /\ StoreUnchanged]_vars

C18_Witness ==
    /\ request.op = "delete_payment" /\ Succeeded
    /\ request.payment_id \notin DOMAIN payments
    /\ payments # EmptyDict

(***************************************************************************)
(* C17: DeleteService removes only the addressed service: every payment    *)
(* and application that references the deleted service_id stays in its map *)
(* unchanged, and every later operation on such a payment or application   *)
(* (update, process, fail, approve, reject, delete-application, export)    *)
(* still succeeds, resolving the service name to "Unknown Service".        *)
(***************************************************************************)
\* the payment / application id references a service_id that is no key of the
\* services map
DanglingPayment(id) ==
    id \in DOMAIN payments /\ payments[id].service_id \notin DOMAIN payment_services

DanglingApplication(id) ==
    /\ id \in DOMAIN payment_applications
    /\ payment_applications[id].service_id \notin DOMAIN payment_services

\* every notification of the step names the service "Unknown Service"
NotifiedAsUnknown ==
    /\ mails' # <<>>
    /\ \A i \in DOMAIN mails' : mails'[i].template_data.service_name = "Unknown Service"

C17_DeleteServiceLeavesReferences ==
    [][/\ (request'.op = "delete_payment_service"
             /\ request'.service_id \in DOMAIN payment_services) =>
              /\ Succeeded'
              /\ RemovedExactly(payment_services, payment_services', request'.service_id)
              /\ payments' = payments
              /\ payment_applications' = payment_applications
       /\ (request'.op \in {"update_payment", "process_payment", "fail_payment"}
             /\ DanglingPayment(request'.payment_id)) =>
              Succeeded' /\ NotifiedAsUnknown
       /\ (request'.op \in {"approve_application", "reject_application",
                            "delete_application"}
             /\ DanglingApplication(request'.application_id)) =>
              Succeeded' /\ NotifiedAsUnknown
       /\ (request'.op = "download_payment" /\ request'.writable
             /\ DanglingPayment(request'.payment_id)) =>
              /\ Succeeded'
              /\ response'.body.rows[2][1] = request'.payment_id
              /\ response'.body.rows[2][3] = "Unknown Service"
       /\ (request'.op = "export_payments" /\ request'.writable) =>
              /\ Succeeded'
              /\ \A id \in DOMAIN payments : DanglingPayment(id) =>
                     \E i \in 2..Len(response'.body.rows) :
                         /\ response'.body.rows[i][1] = id
                         /\ response'.body.rows[i][3] = "Unknown Service"]_vars

C17_Witness ==
    /\ request.op = "approve_application" /\ Succeeded
    /\ payment_applications[request.application_id].service_id
         \notin DOMAIN payment_services
    /\ payment_services # EmptyDict
    /\ mails[1].template_data.service_name = "Unknown Service"
    /\ payments[response.body.payment_id].service_id \notin DOMAIN payment_services

(***************************************************************************)
(* C19: every record for which Append (POST /log) or AppendBatch           *)
(* (POST /log/batch) answered success is eventually written to the store   *)
(* of its source service, and a later Query for that service returns a     *)
(* record containing the original message; both answer success before the  *)
(* write, AppendBatch with count equal to the number of records submitted. *)
(* log_to_file writes nothing for a record whose level is none of INFO,    *)
(* ERROR, WARNING, DEBUG (lines 87-94), and the sink has answered success  *)
(* for it.                                                                 *)
(***************************************************************************)
\* the sink has answered success for the record and its task has not run
Accepted(log_entry) ==
    \E b \in DOMAIN background_tasks :
        \E i \in DOMAIN background_tasks[b] : background_tasks[b][i] = log_entry

\* a line of the store of the record's service contains its message
Written(log_entry) ==
    /\ log_entry.service \in DOMAIN log_files
    /\ \E i \in DOMAIN log_files[log_entry.service] :
           Contains(log_files[log_entry.service][i], log_entry.message)

\* a Query for the record's service returns a line that contains its message
Queried(log_entry) ==
    LET page == get_logs(log_entry.service, None, 100, 0).body.logs
    IN  \E i \in DOMAIN page : Contains(page[i], log_entry.message)

C19_AcceptedIsEventuallyWritten ==
    /\ [](request.op = "create_log" => response.body.status = "success")
    /\ [](request.op = "create_logs_batch" =>
            response.body = [status |-> "success", count |-> Len(request.logs)])
    /\ \A log_entry \in LogEntryInputs :
           Accepted(log_entry) ~> (Written(log_entry) /\ Queried(log_entry))

(***************************************************************************)
(* C20: Query with a level parameter returns exactly the stored records of *)
(* that service whose level equals the given level: a record of another    *)
(* level is never returned, even when its message or details text contains *)
(* the level string.  get_logs keeps every line that contains the level    *)
(* string anywhere (line 157), so a record of another level whose message  *)
(* or details mention it is returned and counted.                          *)
(***************************************************************************)
\* the level of a stored line: the levelname column of the format
LevelOf(line) == line[3]

\* the lines whose level is the given one, in stored order
RECURSIVE OfLevel(_, _)
OfLevel(lines, level) ==
    IF lines = <<>> THEN <<>>
    ELSE (IF LevelOf(Head(lines)) = level THEN <<Head(lines)>> ELSE <<>>)
           \o OfLevel(Tail(lines), level)

\* the lines stored for a service
Stored(service_name) ==
    IF service_name \in DOMAIN log_files THEN log_files[service_name] ELSE <<>>

C20_QueryFiltersByLevel ==
    (request.op = "get_logs" /\ request.level # None) =>
        LET matching == OfLevel(Stored(request.service_name), request.level)
        IN  /\ response.body.total = Len(matching)
            /\ response.body.logs = Slice(matching, request.offset, request.limit)
            /\ \A i \in DOMAIN response.body.logs :
                   LevelOf(response.body.logs[i]) = request.level

(***************************************************************************)
(* C21: Query(service, limit, offset) returns the records of the filtered  *)
(* set at positions offset .. offset+limit-1 in stored order, not          *)
(* re-sorted, and total is the size of the whole filtered set whatever     *)
(* limit and offset are; a service with no store yields an empty page and  *)
(* total 0.  limit and offset are any int and go into a slice unchecked    *)
(* (line 160): a negative offset or a negative offset + limit counts from  *)
(* the end of the list.                                                    *)
(***************************************************************************)
\* the positions (from 0) of a list of n records that lie in
\* offset .. offset+limit-1, in increasing order
RECURSIVE PositionsFrom(_, _, _, _)
PositionsFrom(p, n, offset, limit) ==
    IF p >= n THEN <<>>
    ELSE (IF offset <= p /\ p <= offset + limit - 1 THEN <<p>> ELSE <<>>)
           \o PositionsFrom(p + 1, n, offset, limit)

\* the records of seq at those positions
PageOf(seq, offset, limit) ==
    LET positions == PositionsFrom(0, Len(seq), offset, limit)
    IN  [i \in 1..Len(positions) |-> seq[positions[i] + 1]]

C21_QueryPagesInStoredOrder ==
    (request.op = "get_logs" /\ request.level = None) =>
        LET stored == Stored(request.service_name)
        IN  /\ response.body.total = Len(stored)
            /\ response.body.logs = PageOf(stored, request.offset, request.limit)
            /\ request.service_name \notin DOMAIN log_files =>
                   response.body = [logs |-> <<>>, total |-> 0]

(***************************************************************************)
(* C22: SendNotification (POST /send-template) with a template_id that is  *)
(* not in the registry of named templates fails with an error result and   *)
(* opens no session with the mail transport, whoever the recipients are    *)
(* and whatever the transport would answer.                                *)
(***************************************************************************)
SendOfUnknownTemplate ==
    request.op = "send_template" /\ request.template_id \notin DOMAIN Templates

C22_UnknownTemplateFails ==
    SendOfUnknownTemplate =>
        /\ ~Succeeded
        /\ response.status_code = 500
        /\ smtp = <<>>

C22_Witness ==
    /\ SendOfUnknownTemplate
    /\ request.template_id = "welcome"
    /\ request.to # <<>> /\ ~request.testing /\ request.transport = "ok"
    /\ response.status_code = 500
    /\ smtp = <<>>

(***************************************************************************)
(* C23 as stated: SendNotification and SendRaw (POST /send) with an empty  *)
(* recipient list fail without opening a session with the mail transport;  *)
(* with a non-empty list (and, for SendNotification, a template that       *)
(* exists) they open exactly one session, never a second one, and report   *)
(* success exactly when that session ran to its end.                       *)
(* With TESTING set to "True" in the environment send_email opens no       *)
(* session at all and reports success (lines 73-75).                       *)
(***************************************************************************)
\* the last request asked the gateway for a mail it can build
MailRequested ==
    \/ request.op = "send"
    \/ request.op = "send_template" /\ request.template_id \in DOMAIN Templates

\* one session was opened, and the answer says whether it ran to its end
OneAttemptReported ==
    /\ Len(smtp) = 1
    /\ Succeeded <=> smtp[1].raised_at = "ok"

C23_OneTransportAttempt ==
    MailRequested =>
        IF request.to = <<>>
        THEN ~Succeeded /\ smtp = <<>>
        ELSE OneAttemptReported

(***************************************************************************)
(* C23 amended: with an empty recipient list SendNotification and SendRaw  *)
(* fail without opening a session with the mail transport.  With a         *)
(* non-empty list (and, for SendNotification, a template that exists) they *)
(* open exactly one session, never a second one, and report success        *)
(* exactly when that session ran to its end, unless TESTING is "True" in   *)
(* the environment: then they open no session and report success.          *)
(***************************************************************************)
C23_OneAttemptUnlessTesting ==
    MailRequested =>
        IF request.to = <<>>
        THEN ~Succeeded /\ smtp = <<>>
        ELSE IF request.testing
        THEN Succeeded /\ smtp = <<>>
        ELSE OneAttemptReported

C23_Witness ==
    /\ request.op = "send" /\ request.to # <<>> /\ ~request.testing
    /\ request.transport = "sendmail"
    /\ ~Succeeded
    /\ Len(smtp) = 1 /\ smtp[1].raised_at = "sendmail"

(***************************************************************************)
(* C24: a call of a LoggerClient method (info, error, warning, debug)      *)
(* makes exactly one POST to the Log Sink, carrying the client's service   *)
(* name, the level of the method and the message; it returns true exactly  *)
(* when the Log Sink answered with status 200, and returns false without   *)
(* raising on every other status and when the POST fails.                  *)
(***************************************************************************)
ClientMethods ==
    [info |-> "INFO", error |-> "ERROR", warning |-> "WARNING", debug |-> "DEBUG"]

\* the last step was a call of the method m of a LoggerClient
CalledMethod(m) == request.op = "logger_client" /\ request.method = m

C24_ClientPostsOnceAndNeverRaises ==
    \A m \in DOMAIN ClientMethods : CalledMethod(m) =>
        /\ Len(client.posts) = 1
        /\ client.posts[1].url = "/log"
        /\ client.posts[1].json.service = request.service_name
        /\ client.posts[1].json.level = ClientMethods[m]
        /\ client.posts[1].json.message = request.message
        /\ client.returned <=> request.answer = 200
        /\ ~client.raised

C24_Witness ==
    /\ CalledMethod("warning")
    /\ request.answer = 0
    /\ Len(client.posts) = 1
    /\ ~client.returned /\ ~client.raised

(***************************************************************************)
(* C25: UpdateService(id, partial) on an existing service overwrites       *)
(* exactly the fields present in partial and leaves the other fields, the  *)
(* service_id key, every other service, and all payments and applications  *)
(* unchanged.                                                              *)
(***************************************************************************)
UpdateServiceOfExisting ==
    /\ request'.op = "update_payment_service"
    /\ request'.service_id \in DOMAIN payment_services

C25_UpdateOverwritesGivenFields ==
    [][UpdateServiceOfExisting =>
         LET id == request'.service_id
             partial == request'.service_update
         IN  /\ Succeeded'
             /\ DOMAIN payment_services' = DOMAIN payment_services
             /\ DOMAIN payment_services'[id] = DOMAIN payment_services[id]
             /\ \A f \in DOMAIN payment_services[id] :
                    payment_services'[id][f] =
                        IF f \in DOMAIN partial THEN partial[f]
                        ELSE payment_services[id][f]
             /\ payment_services'[id].service_id = id
             /\ \A other \in DOMAIN payment_services \ {id} :
                    payment_services'[other] = payment_services[other]
             /\ payments' = payments
             /\ payment_applications' = payment_applications]_vars

\* a partial update of one of two registered services has been applied, with
\* a payment and an application in the maps
C25_Witness ==
    /\ request.op = "update_payment_service" /\ Succeeded
    /\ request.service_update = [base_price |-> 200]
    /\ DOMAIN payment_services = TwoServiceIds
    /\ payment_services[request.service_id].base_price = 200
    /\ payment_services[request.service_id].name = "Algebra"
    /\ payments # EmptyDict
    /\ payment_applications # EmptyDict

(***************************************************************************)
(* C26: ExportPayment(id) of an existing payment produces a header row     *)
(* containing "Payment ID" and exactly one data row containing that        *)
(* payment's payment_id, service_id, current status and the service name   *)
(* resolved at export time: the registered service's current name, or      *)
(* "Unknown Service" if the service is no longer registered; the export    *)
(* changes no map.  The file is produced whenever the export directory can *)
(* be written.                                                             *)
(***************************************************************************)
DownloadOfExisting ==
    /\ request'.op = "download_payment"
    /\ request'.payment_id \in DOMAIN payments

\* the name the registry holds for the service at the time of the export
NameAtExport(service_id) ==
    IF service_id \in DOMAIN payment_services
    THEN payment_services[service_id].name
    ELSE "Unknown Service"

C26_DownloadExportsOneRow ==
    [][DownloadOfExisting =>
         LET payment == payments[request'.payment_id]
         IN  /\ payment_services' = payment_services
             /\ payments' = payments
             /\ payment_applications' = payment_applications
             /\ request'.writable => Succeeded'
             /\ Succeeded' =>
                  LET rows == response'.body.rows
                  IN  /\ Len(rows) = 2
                      /\ \E i \in DOMAIN rows[1] : rows[1][i] = "Payment ID"
                      /\ rows[2][1] = request'.payment_id
                      /\ rows[2][1] = payment.payment_id
                      /\ rows[2][2] = payment.service_id
                      /\ rows[2][3] = NameAtExport(payment.service_id)
                      /\ rows[2][6] = payment.status]_vars

\* a paid payment whose service has been deleted has been exported
C26_Witness ==
    /\ request.op = "download_payment" /\ Succeeded
    /\ payments[request.payment_id].service_id \notin DOMAIN payment_services
    /\ payments[request.payment_id].status = "paid"
    /\ response.body.rows[2][3] = "Unknown Service"
    /\ response.body.rows[2][6] = "paid"

(***************************************************************************)
(* C27: under concurrent requests on the same payment, each handler's      *)
(* existence check and mutation execute without interleaving with another  *)
(* handler, so status updates are last-write-wins: the stored status is    *)
(* the one written by the request served last, and a delete racing with an *)
(* update or a second delete never yields an unhandled error or a          *)
(* partially applied operation: the request that loses the race is         *)
(* answered Not Found and changes nothing.                                 *)
(***************************************************************************)
HandlerRan == Len(in_flight') < Len(in_flight)

C27_ConcurrentHandlersSerialize ==
    [][HandlerRan =>
         \E i \in DOMAIN in_flight :
            LET req == in_flight[i]
            IN  /\ request' = req
                /\ in_flight' = RemoveAt(in_flight, i)
                /\ response'.status_code \in {200, 404}
                /\ payment_services' = payment_services
                /\ req.op = "update_payment" =>
                     /\ payment_applications' = payment_applications
                     /\ IF req.payment_id \in DOMAIN payments
                        THEN /\ Succeeded'
                             /\ payments' = [payments EXCEPT ![req.payment_id].status =
                                                req.payment_update.status]
                        ELSE NotFound' /\ payments' = payments
                /\ req.op = "delete_payment" =>
                     /\ payment_applications' = payment_applications
                     /\ IF req.payment_id \in DOMAIN payments
                        THEN /\ Succeeded'
                             /\ RemovedExactly(payments, payments', req.payment_id)
                        ELSE NotFound' /\ payments' = payments
                /\ req.op = "delete_application" =>
                     /\ payments' = payments
                     /\ IF req.application_id \in DOMAIN payment_applications
                        THEN /\ Succeeded'
                             /\ RemovedExactly(payment_applications,
                                               payment_applications',
                                               req.application_id)
                        ELSE NotFound' /\ payment_applications' = payment_applications]_vars

\* an update that was accepted while its payment existed has lost the race
\* against a delete of the same payment: it is answered Not Found
C27_Witness ==
    /\ request.op = "update_payment" /\ NotFound
    /\ request.payment_id \notin DOMAIN payments
    /\ in_flight = <<>>
    /\ payments # EmptyDict

(***************************************************************************)
(* C28: application transitions are unenforced: ApproveApplication and     *)
(* RejectApplication succeed on every existing application whatever its    *)
(* current status (pending, approved or rejected), and every successful    *)
(* ApproveApplication call, including a repeated one on an application     *)
(* that is approved already, adds one further Payment, so that the number  *)
(* of payments created from an application grows by one with every         *)
(* successful approve call on it.                                          *)
(***************************************************************************)
TransitionOfExisting(op) ==
    /\ request'.op = op
    /\ request'.application_id \in DOMAIN payment_applications

C28_TransitionsAreUnenforced ==
    [][/\ TransitionOfExisting("approve_application") =>
            /\ Succeeded'
            /\ payment_applications'[request'.application_id].status = "approved"
            /\ DOMAIN payments \subseteq DOMAIN payments'
            /\ Cardinality(DOMAIN payments') = Cardinality(DOMAIN payments) + 1
            /\ \A pid \in DOMAIN payments' \ DOMAIN payments :
                  payments'[pid].user_id =
                      payment_applications[request'.application_id].user_id
       /\ TransitionOfExisting("reject_application") =>
            /\ Succeeded'
            /\ payment_applications'[request'.application_id].status = "rejected"
            /\ payments' = payments]_vars

\* one application has been approved twice: two payments were created from it
C28_Witness ==
    /\ request.op = "approve_application" /\ Succeeded
    /\ Cardinality(DOMAIN payment_applications) = 1
    /\ Cardinality(DOMAIN payments) = 2
    /\ payment_applications[request.application_id].status = "approved"

(***************************************************************************)
(* C29: in every engine operation other than DeleteApplication the         *)
(* mutation is committed before the operation issues its notification: at  *)
(* the moment a payment_created, payment_success, payment_failed,          *)
(* application_created, application_approved or application_rejected       *)
(* notification is dispatched, the entity it names exists in its map with  *)
(* the status the notification announces (payment_success: "paid",         *)
(* payment_failed: "failed").  update_payment dispatches both              *)
(* payment_success and payment_failed whatever status it stored, so the    *)
(* statement fails.                                                        *)
(***************************************************************************)
Announced ==
    [payment_created |-> "pending", payment_success |-> "paid",
     payment_failed |-> "failed", application_created |-> "pending",
     application_approved |-> "approved", application_rejected |-> "rejected"]

\* the entity the notification names is in its map, as the maps were when the
\* notification was dispatched, in the status the notification announces
CommittedAtDispatch(mail) ==
    IF mail.template_id \in {"payment_created", "payment_success", "payment_failed"}
    THEN LET id == mail.template_data.payment_id
         IN  /\ id \in DOMAIN mail.at_dispatch.payments
             /\ mail.at_dispatch.payments[id].status = Announced[mail.template_id]
    ELSE LET id == mail.template_data.application_id
         IN  /\ id \in DOMAIN mail.at_dispatch.payment_applications
             /\ mail.at_dispatch.payment_applications[id].status
                  = Announced[mail.template_id]

C29_CommittedBeforeNotification ==
    request.op # "delete_application" =>
        \A i \in DOMAIN mails : CommittedAtDispatch(mails[i])

(***************************************************************************)
(* C30: after any sequence of engine operations, every stored application  *)
(* has status in {pending, approved, rejected} and is stored under the key *)
(* equal to its application_id, every stored payment is stored under the   *)
(* key equal to its payment_id, and a payment's service_id, amount,        *)
(* user_id and email never change after creation (only its status does).   *)
(***************************************************************************)
ApplicationStatuses == {"pending", "approved", "rejected"}

C30_StoredEntitiesKeepIdentity ==
    [][/\ \A id \in DOMAIN payment_applications' :
             /\ payment_applications'[id].status \in ApplicationStatuses
             /\ payment_applications'[id].application_id = id
       /\ \A id \in DOMAIN payments' : payments'[id].payment_id = id
       /\ \A id \in DOMAIN payments \cap DOMAIN payments' :
             /\ payments'[id].service_id = payments[id].service_id
             /\ payments'[id].amount = payments[id].amount
             /\ payments'[id].user_id = payments[id].user_id
             /\ payments'[id].email = payments[id].email]_vars

\* a payment whose status has been changed since its creation is stored next
\* to an application that has been rejected
C30_Witness ==
    /\ request.op = "update_payment" /\ Succeeded
    /\ payments[request.payment_id].status = "refunded"
    /\ payments[request.payment_id].email = "a@example.com"
    /\ \E id \in DOMAIN payment_applications :
          payment_applications[id].status = "rejected"

====
